---------------------------- MODULE Spec2Model ----------------------------
(***************************************************************************)
(* A model of the analytics engine of Popular-AI-Startup-Search: the       *)
(* percentage-change metric of the analyzers, the tie-aware ranking and    *)
(* the cross-source combined ranking with its rank delta, and the          *)
(* comparison-period arithmetic on YYYY-MM month keys.                     *)
(*                                                                         *)
(* Representation.                                                         *)
(*  - A Python float is an IEEE 754 binary64 number: a record              *)
(*    [sign, m, e] of value sign * m * 2^e, m a sequence of MantBits bits  *)
(*    (most significant first, leading bit 1); zero is FloatZero.  Float   *)
(*    division and multiplication round to nearest, ties to even.          *)
(*  - A Decimal with one fractional digit, and a float that round(x, 1)    *)
(*    returned, is the integer number of tenths (33.3 is 333).             *)
(*  - A Python str is a sequence of one-character strings.                 *)
(*  - Python's None is the string "None".                                  *)
(***************************************************************************)
EXTENDS Integers, Sequences, FiniteSets, TLC

VARIABLES
    pc,                  \* position of the call being modelled
    current_value,       \* ChangeMetric: the current count
    previous_value,      \* ChangeMetric: the previous count
    result,              \* what the call being modelled returned, or None
    gdelt_data,          \* ranking: source A's result set (a list of entries)
    newsapi_data,        \* ranking: source B's result set
    gdelt_rank_map,      \* ranking: calculate_proper_ranking(gdelt_data, ...)
    newsapi_rank_map,    \* ranking: calculate_proper_ranking(newsapi_data, ...)
    comprehensive_ranking, \* ranking: the combined ranking (a list)
    prev_rank_map,       \* rank delta: name -> previous final rank, or None
    ranking_with_changes, \* rank delta: what calculate_ranking_changes returned
    target_month,        \* period arithmetic: the requested month key
    previous_month,      \* period arithmetic: the comparison key, or None
    response_data,       \* heat index: the TimelineVol response of one company
    heat_data,           \* heat index: what the reducer returned, or None
    heat_index,          \* heat index: HeatIndex.heat_index, in millionths
    monthly_mentions,    \* storage: the MonthlyMention rows, in id order
    yoy_analysis,        \* storage: the MonthlyYoYAnalysis rows, in id order
    mom_analysis,        \* storage: the MonthlyMoMAnalysis rows, in id order
    runs,                \* the analysis or collection runs, by run id
    batch,               \* provider adapter: the batch query in progress
    heat_indices         \* storage: the HeatIndex rows, in id order

changeVars == <<current_value, previous_value, result>>
rankVars == <<gdelt_data, newsapi_data, gdelt_rank_map, newsapi_rank_map,
              comprehensive_ranking, prev_rank_map, ranking_with_changes>>
monthVars == <<target_month, previous_month>>
heatVars == <<response_data, heat_data, heat_index>>
storeVars == <<monthly_mentions, yoy_analysis, mom_analysis, runs>>
batchVars == <<batch, heat_indices>>
vars == <<pc, changeVars, rankVars, monthVars, heatVars, storeVars, batchVars>>

None == "None"

\* "is None", for a value of any type
IsNone(v) == ToString(v) = ToString(None)

-----------------------------------------------------------------------------
(* Bounds of the model.                                                    *)

\* counts -1 .. MaxSmallCount are all tried, next to the SampleCounts
MaxSmallCount == 9
\* larger counts, taken from the documented examples and from the places
\* where the quotient is a rounding tie or rounds to zero tenths
SampleCounts == {80, 100, 103, 150, 200, 400, 401, 2500, 2501}
Counts == (-1 .. MaxSmallCount) \cup SampleCounts

-----------------------------------------------------------------------------
(* Sequences of bits, most significant bit first.                          *)

Zeros(n) == IF n <= 0 THEN <<>> ELSE [i \in 1 .. n |-> 0]

RECURSIVE BitsValue(_)
BitsValue(b) ==
    IF b = <<>> THEN 0
    ELSE 2 * BitsValue(SubSeq(b, 1, Len(b) - 1)) + b[Len(b)]

AnyOne(bits) == \E i \in 1 .. Len(bits) : bits[i] = 1

\* the 4 * Len(digits) bits of a sequence of hexadecimal digits
DigitBits(digits) ==
    [i \in 1 .. 4 * Len(digits) |->
        (digits[((i - 1) \div 4) + 1] \div <<8, 4, 2, 1>>[((i - 1) % 4) + 1]) % 2]

\* the hexadecimal digits of a sequence of bits
BitDigits(bits) ==
    LET padded == Zeros((4 - (Len(bits) % 4)) % 4) \o bits
    IN  [j \in 1 .. (Len(padded) \div 4) |->
            8 * padded[4 * j - 3] + 4 * padded[4 * j - 2]
              + 2 * padded[4 * j - 1] + padded[4 * j]]

\* bits without its leading zeros
StripZeros(bits) ==
    IF ~AnyOne(bits) THEN <<>>
    ELSE LET first == CHOOSE i \in 1 .. Len(bits) :
                        bits[i] = 1 /\ \A j \in 1 .. (i - 1) : bits[j] = 0
         IN  SubSeq(bits, first, Len(bits))

RECURSIVE NatDigits(_)
NatDigits(n) == IF n = 0 THEN <<>> ELSE NatDigits(n \div 16) \o <<n % 16>>

RECURSIVE MulDigits(_, _, _, _)
\* the digits of (digits[1 .. i] * k + carry)
MulDigits(digits, i, k, carry) ==
    IF i = 0 THEN NatDigits(carry)
    ELSE LET acc == digits[i] * k + carry
         IN  MulDigits(digits, i - 1, k, acc \div 16) \o <<acc % 16>>

\* the bits of (bits * k), k a small positive integer
MulBits(bits, k) ==
    LET digits == BitDigits(bits)
    IN  StripZeros(DigitBits(MulDigits(digits, Len(digits), k, 0)))

\* the bits of (bits + 1)
IncBits(bits) ==
    IF \A i \in 1 .. Len(bits) : bits[i] = 1 THEN <<1>> \o Zeros(Len(bits))
    ELSE LET z == CHOOSE i \in 1 .. Len(bits) :
                    bits[i] = 0 /\ \A j \in (i + 1) .. Len(bits) : bits[j] = 1
         IN  [i \in 1 .. Len(bits) |->
                IF i < z THEN bits[i] ELSE IF i = z THEN 1 ELSE 0]

-----------------------------------------------------------------------------
(* IEEE 754 binary64 arithmetic, as Python's float performs it.            *)

MantBits == 53

FloatZero == [sign |-> 0, m |-> <<>>, e |-> 0]

\* bits * 2^e rounded to MantBits bits, to nearest, ties to even
RoundNearestEven(bits, e) ==
    LET L    == Len(bits)
        keep == SubSeq(bits, 1, MantBits)
        tail == SubSeq(bits, MantBits + 1, L)
        up   == /\ tail # <<>>
                /\ tail[1] = 1
                /\ (AnyOne(Tail(tail)) \/ keep[MantBits] = 1)
        inc  == IncBits(keep)
    IN  IF ~up THEN [m |-> keep, e |-> e + (L - MantBits)]
        ELSE IF Len(inc) > MantBits
             THEN [m |-> SubSeq(inc, 1, MantBits), e |-> e + (L - MantBits) + 1]
             ELSE [m |-> inc, e |-> e + (L - MantBits)]

\* n / d = (n' / d') * 2^e with d' <= n' < 2 * d' (n, d positive, below 2^29)
Normalise(n, d) ==
    IF n >= d
    THEN LET k == CHOOSE k \in 0 .. 29 :
                    (n \div (2 ^ k)) >= d /\ (n \div (2 ^ (k + 1))) < d
         IN  [n |-> n, d |-> d * (2 ^ k), e |-> k]
    ELSE LET k == CHOOSE k \in 1 .. 29 :
                    n > ((d - 1) \div (2 ^ k)) /\ n <= ((d - 1) \div (2 ^ (k - 1)))
         IN  [n |-> n * (2 ^ k), d |-> d, e |-> 0 - k]

RECURSIVE DivDigits(_, _, _)
\* the first k hexadecimal digits of rem / d (0 <= rem < d) and what remains
DivDigits(rem, d, k) ==
    IF k = 0 THEN [digits |-> <<>>, rem |-> rem]
    ELSE LET rest == DivDigits((16 * rem) % d, d, k - 1)
         IN  [digits |-> <<(16 * rem) \div d>> \o rest.digits, rem |-> rest.rem]

\* |n / d| as a float magnitude, n and d positive integers: the leading 1,
\* 56 more bits of the quotient, and one bit saying whether more follow
FloatDivMag(n, d) ==
    LET nz   == Normalise(n, d)
        q    == DivDigits(nz.n - nz.d, nz.d, 14)
        bits == <<1>> \o DigitBits(q.digits) \o <<IF q.rem # 0 THEN 1 ELSE 0>>
    IN  RoundNearestEven(bits, nz.e - (Len(bits) - 1))

Sgn(n) == IF n > 0 THEN 1 ELSE IF n < 0 THEN -1 ELSE 0

\* the float n / d of two Python ints, d # 0
FloatDiv(n, d) ==
    IF n = 0 THEN FloatZero
    ELSE LET mag == FloatDivMag(n * Sgn(n), d * Sgn(d))
         IN  [sign |-> Sgn(n) * Sgn(d), m |-> mag.m, e |-> mag.e]

\* the float x * k, k a small positive Python int
FloatMulInt(x, k) ==
    IF x.sign = 0 THEN FloatZero
    ELSE LET mag == RoundNearestEven(MulBits(x.m, k), x.e)
         IN  [sign |-> x.sign, m |-> mag.m, e |-> mag.e]

\* |x| * 10 split into its integer part t and the place of its fraction
\* relative to one half (x a nonzero float below 2^52)
TenthsParts(x) ==
    LET p      == MulBits(x.m, 10)
        sh     == 0 - x.e
        padded == Zeros(sh + 1 - Len(p)) \o p
        L      == Len(padded)
        frac   == SubSeq(padded, L - sh + 1, L)
    IN  [t    |-> BitsValue(SubSeq(padded, 1, L - sh)),
         half |-> IF frac[1] = 0 THEN "below"
                  ELSE IF AnyOne(Tail(frac)) THEN "above" ELSE "tie"]

\* round(x, 1), and the digits of format(x, ".1f"): the exact binary value
\* of x correctly rounded to tenths, ties to even; the result in tenths
RoundFloatTenths(x) ==
    IF x.sign = 0 THEN 0
    ELSE LET parts  == TenthsParts(x)
             toEven == \/ parts.half = "above"
                       \/ (parts.half = "tie" /\ parts.t % 2 = 1)
         IN  x.sign * (IF toEven THEN parts.t + 1 ELSE parts.t)

\* Decimal(str(x)).quantize(Decimal('0.1'), rounding=ROUND_HALF_UP), in
\* tenths.  str(x) is the shortest decimal string that reads back as x: it
\* is the two-decimal tie (2t+1)/20 itself when that tie reads back as x,
\* and lies on x's side of the tie otherwise.  ROUND_HALF_UP rounds a tie
\* away from zero.
DecimalStrQuantize(x) ==
    IF x.sign = 0 THEN 0
    ELSE LET parts   == TenthsParts(x)
             midpoint == FloatDivMag(2 * parts.t + 1, 20)
             away    == \/ (midpoint.m = x.m /\ midpoint.e = x.e)
                        \/ parts.half \in {"above", "tie"}
         IN  x.sign * (IF away THEN parts.t + 1 ELSE parts.t)

-----------------------------------------------------------------------------
(* Strings.                                                                *)

DigitChar(d) == <<"0", "1", "2", "3", "4", "5", "6", "7", "8", "9">>[d + 1]

RECURSIVE NatChars(_)
\* str(n) of a natural number
NatChars(n) ==
    IF n < 10 THEN <<DigitChar(n)>>
    ELSE NatChars(n \div 10) \o <<DigitChar(n % 10)>>

Abs(n) == IF n < 0 THEN 0 - n ELSE n

\* the digits "d.d" of a magnitude of t tenths
TenthsChars(t) == NatChars(Abs(t) \div 10) \o <<".", DigitChar(Abs(t) % 10)>>

\* f"{value:.1f}" of the float nearest to a Decimal of t tenths
FormatDecimal1f(t) == (IF t < 0 THEN <<"-">> ELSE <<>>) \o TenthsChars(t)

\* f"{x:.1f}" of a float x: x correctly rounded to one decimal, and the sign
\* of x itself, so that a negative x that rounds to zero prints "-0.0"
FormatFloat1f(x) ==
    (IF x.sign < 0 THEN <<"-">> ELSE <<>>) \o TenthsChars(RoundFloatTenths(x))

-----------------------------------------------------------------------------
(* ChangeMetric: the percentage change of the four analyzers.              *)

\* ((current - previous) / previous) * 100 in float arithmetic
ChangeFloat(current, previous) ==
    FloatMulInt(FloatDiv(current - previous, previous), 100)

\* _calculate_percentage_change without the sentinel for growth from zero
_calculate_percentage_change_no_sentinel(current, previous) ==
    IF previous = 0
    THEN 0
    ELSE DecimalStrQuantize(ChangeFloat(current, previous))

\* AnalysisService._calculate_percentage_change: a Decimal, in tenths
_calculate_percentage_change(current, previous) ==
    IF previous = 0
    THEN IF current = 0 THEN 0 ELSE 9990
    ELSE DecimalStrQuantize(ChangeFloat(current, previous))

\* AnalysisService._format_percentage_change
_format_percentage_change(percentage) ==
    IF IsNone(percentage) THEN <<"N", "/", "A">>
    ELSE IF percentage > 0 THEN <<"+">> \o FormatDecimal1f(percentage) \o <<"%">>
    ELSE IF percentage < 0 THEN FormatDecimal1f(percentage) \o <<"%">>
    ELSE <<"0", ".", "0", "%">>

\* the change fields of the dict AnalysisService._calculate_company_yoy returns
AnalysisService_change(current, previous) ==
    LET change_percentage == _calculate_percentage_change(current, previous)
    IN  [analyzer |-> "AnalysisService",
         exception |-> None,
         change_percentage |-> change_percentage,
         monthly_change_percentage |->
             IF change_percentage # 0 THEN change_percentage ELSE None,
         formatted_change |-> _format_percentage_change(change_percentage)]

\* NewsAPIAnalysisService._calculate_percentage_change
newsapi_calculate_percentage_change(current, previous) ==
    IF previous = 0
    THEN IF current = 0 THEN 0 ELSE 9990
    ELSE DecimalStrQuantize(ChangeFloat(current, previous))

\* NewsAPIAnalysisService._format_percentage_change
newsapi_format_percentage_change(percentage) ==
    IF IsNone(percentage) THEN <<"N", "/", "A">>
    ELSE IF percentage > 0 THEN <<"+">> \o FormatDecimal1f(percentage) \o <<"%">>
    ELSE IF percentage < 0 THEN FormatDecimal1f(percentage) \o <<"%">>
    ELSE <<"0", ".", "0", "%">>

\* the change fields of the dict NewsAPIAnalysisService._calculate_company_mom
\* returns
NewsAPIAnalysisService_change(current, previous) ==
    LET change_percentage == newsapi_calculate_percentage_change(current, previous)
    IN  [analyzer |-> "NewsAPIAnalysisService",
         exception |-> None,
         change_percentage |-> change_percentage,
         monthly_change_percentage |->
             IF change_percentage # 0 THEN change_percentage ELSE None,
         formatted_change |-> newsapi_format_percentage_change(change_percentage)]

\* the float change_percentage and the formatted_change that the inline code
\* of NewsAPIRealDataService.get_newsapi_mom_analysis and of the
\* /analysis/newsapi-mom handler computes (the two are the same text)
InlineChange(current_mentions, previous_mentions) ==
    IF previous_mentions = 0
    THEN IF current_mentions = 0
         THEN [change_percentage |-> FloatZero,
               formatted_change |-> <<"0", ".", "0", "%">>]
         ELSE [change_percentage |-> FloatDiv(999, 1),
               formatted_change |-> <<"+", "9", "9", "9", ".", "0", "%">>]
    ELSE LET change_percentage == ChangeFloat(current_mentions, previous_mentions)
         IN  [change_percentage |-> change_percentage,
              formatted_change |->
                  IF change_percentage.sign > 0
                  THEN <<"+">> \o FormatFloat1f(change_percentage) \o <<"%">>
                  ELSE IF change_percentage.sign < 0
                  THEN FormatFloat1f(change_percentage) \o <<"%">>
                  ELSE <<"0", ".", "0", "%">>]

\* the change fields of an entry of NewsAPIRealDataService.get_newsapi_mom_analysis:
\* change_percentage is round(change_percentage, 1), in tenths
RealDataService_change(current_mentions, previous_mentions) ==
    LET c == InlineChange(current_mentions, previous_mentions)
    IN  [analyzer |-> "NewsAPIRealDataService",
         exception |-> None,
         change_percentage |-> RoundFloatTenths(c.change_percentage),
         formatted_change |-> c.formatted_change]

\* the change fields of an entry of the /analysis/newsapi-mom handler:
\* monthly_change_percentage is the float itself, not rounded
Handler_change(current_mentions, previous_mentions) ==
    LET c == InlineChange(current_mentions, previous_mentions)
    IN  [analyzer |-> "newsapi-mom handler",
         exception |-> None,
         monthly_change_percentage |-> c.change_percentage,
         formatted_change |-> c.formatted_change]

-----------------------------------------------------------------------------
(* Idle values of the variables a specification does not use.              *)

IdleChange == current_value = 0 /\ previous_value = 0 /\ result = None
IdleRank ==
    /\ gdelt_data = <<>> /\ newsapi_data = <<>>
    /\ gdelt_rank_map = None /\ newsapi_rank_map = None
    /\ comprehensive_ranking = None /\ prev_rank_map = None
    /\ ranking_with_changes = None
IdleMonth == target_month = None /\ previous_month = None
IdleHeat == response_data = None /\ heat_data = None /\ heat_index = 0
IdleStore ==
    /\ monthly_mentions = <<>> /\ yoy_analysis = <<>> /\ mom_analysis = <<>>
    /\ runs = <<>>
IdleBatch == batch = None /\ heat_indices = <<>>

-----------------------------------------------------------------------------
(* SpecChange: one percentage-change computation by one analyzer, for      *)
(* every pair of counts of Counts.                                         *)

InitChange ==
    /\ pc = "change"
    /\ current_value \in Counts
    /\ previous_value \in Counts
    /\ result = None
    /\ IdleRank /\ IdleMonth
    /\ IdleHeat
    /\ IdleStore
    /\ IdleBatch

AnalysisServiceChange ==
    /\ pc = "change"
    /\ result' = AnalysisService_change(current_value, previous_value)
    /\ pc' = "changed"
    /\ UNCHANGED <<current_value, previous_value, rankVars, monthVars>>
    /\ UNCHANGED heatVars
    /\ UNCHANGED storeVars
    /\ UNCHANGED batchVars

NewsAPIAnalysisServiceChange ==
    /\ pc = "change"
    /\ result' = NewsAPIAnalysisService_change(current_value, previous_value)
    /\ pc' = "changed"
    /\ UNCHANGED <<current_value, previous_value, rankVars, monthVars>>
    /\ UNCHANGED heatVars
    /\ UNCHANGED storeVars
    /\ UNCHANGED batchVars

RealDataServiceChange ==
    /\ pc = "change"
    /\ result' = RealDataService_change(current_value, previous_value)
    /\ pc' = "changed"
    /\ UNCHANGED <<current_value, previous_value, rankVars, monthVars>>
    /\ UNCHANGED heatVars
    /\ UNCHANGED storeVars
    /\ UNCHANGED batchVars

HandlerChange ==
    /\ pc = "change"
    /\ result' = Handler_change(current_value, previous_value)
    /\ pc' = "changed"
    /\ UNCHANGED <<current_value, previous_value, rankVars, monthVars>>
    /\ UNCHANGED heatVars
    /\ UNCHANGED storeVars
    /\ UNCHANGED batchVars

NextChange ==
    \/ AnalysisServiceChange
    \/ NewsAPIAnalysisServiceChange
    \/ RealDataServiceChange
    \/ HandlerChange

SpecChange == InitChange /\ [][NextChange]_vars

-----------------------------------------------------------------------------
(* Claims about ChangeMetric.                                              *)

ServiceAnalyzers == {"AnalysisService", "NewsAPIAnalysisService"}

\* a service's percentageChange has run on counts that are not negative
ServiceChanged ==
    /\ pc = "changed"
    /\ result.analyzer \in ServiceAnalyzers
    /\ current_value >= 0
    /\ previous_value >= 0

\* C1: with previous = 0, percentageChange of a service gives 0.0 and "0.0%"
\* when current is 0 too, and the sentinel 999.0 and "+999.0%" when current
\* is greater than zero.
C1_ZeroPreviousPolicy ==
    (ServiceChanged /\ previous_value = 0) =>
        IF current_value = 0
        THEN /\ result.change_percentage = 0
             /\ result.formatted_change = <<"0", ".", "0", "%">>
        ELSE /\ result.change_percentage = 9990
             /\ result.formatted_change = <<"+", "9", "9", "9", ".", "0", "%">>

\* C1: a service has computed the change of a count that grew from zero
C1_Witness ==
    /\ ServiceChanged
    /\ result.analyzer = "NewsAPIAnalysisService"
    /\ previous_value = 0
    /\ current_value = 3
    /\ result.change_percentage = 9990

\* (current - previous) / previous * 100 rounded half-up to one decimal in
\* exact arithmetic, in tenths; ties go away from zero
ExactHalfUp(current, previous) ==
    Sgn(current - previous)
        * ((2000 * Abs(current - previous) + previous) \div (2 * previous))

\* the same with ties going towards plus infinity
ExactHalfCeiling(current, previous) ==
    IF current >= previous
    THEN ExactHalfUp(current, previous)
    ELSE 0 - ((2000 * (previous - current) + previous - 1) \div (2 * previous))

\* C2: with previous > 0, percentageChange of a service gives
\* (current - previous) / previous * 100 rounded half-up to one decimal
\* (either reading of half-up for a negative tie is accepted).
C2_RoundHalfUp ==
    (ServiceChanged /\ previous_value > 0) =>
        result.change_percentage \in
            {ExactHalfUp(current_value, previous_value),
             ExactHalfCeiling(current_value, previous_value)}

\* the sign of the value an analyzer reports next to formatted_change
ReportedSign ==
    IF result.analyzer = "newsapi-mom handler"
    THEN result.monthly_change_percentage.sign
    ELSE Sgn(result.change_percentage)

\* C3: in every analyzer the formatted change begins with "+" exactly when
\* the reported value is positive, with "-" exactly when it is negative, and
\* is "0.0%" exactly when it is zero.
C3_FormattedSign ==
    (pc = "changed" /\ current_value >= 0 /\ previous_value >= 0) =>
        /\ (result.formatted_change[1] = "+") <=> (ReportedSign > 0)
        /\ (result.formatted_change[1] = "-") <=> (ReportedSign < 0)
        /\ (result.formatted_change = <<"0", ".", "0", "%">>) <=> (ReportedSign = 0)

\* C4: percentageChange with a negative current or previous count fails
\* with InvalidInput.
C4_NegativeInvalidInput ==
    (pc = "changed" /\ (current_value < 0 \/ previous_value < 0)) =>
        result.exception = "InvalidInput"

-----------------------------------------------------------------------------
(* RankAssigner and CrossSourceAggregator: the combined ranking.           *)

Names == {"a", "b", "c"}
MentionCounts == {0, 30, 50}
MaxRankEntries == 3

\* the sequences of at most n elements of E
Lists(n, E) == UNION {[1 .. k -> E] : k \in 0 .. n}

SortedDescending(s, key) ==
    \A i \in 1 .. (Len(s) - 1) : s[i][key] >= s[i + 1][key]

\* what get_gdelt_ranking_data can return: one entry per analysis row of an
\* active company, sorted by current_month_mentions, greatest first
GdeltResults(names, counts, n) ==
    {s \in Lists(n, [company_name : names, current_month_mentions : counts]) :
        SortedDescending(s, "current_month_mentions")}

\* the fields the ranking reads of the entries that
\* NewsAPIRealDataService.get_newsapi_mom_analysis returns (their order is
\* that of the change percentage, so any order of the mention counts)
NewsapiResults(names, counts, n) ==
    Lists(n, [company_name : names, current_mentions : counts])

CompanyNames(data) == {data[i]["company_name"] : i \in DOMAIN data}

\* the orders in which the iteration over a set can visit its elements
IterationOrders(S) ==
    {order \in [1 .. Cardinality(S) -> S] :
        \A i, j \in 1 .. Cardinality(S) : i # j => order[i] # order[j]}

\* the rank of calculate_proper_ranking with equal metrics numbered densely
proper_rank_dense(data, mentions_key, mentions) ==
    1 + Cardinality({data[j][mentions_key] : j \in
                        {k \in DOMAIN data : data[k][mentions_key] > mentions}})

\* the inner loop of calculate_proper_ranking: one more than the number of
\* entries with more mentions
proper_rank(data, mentions_key, mentions) ==
    1 + Cardinality({j \in DOMAIN data : data[j][mentions_key] > mentions})

\* calculate_proper_ranking: the dict company_name -> {rank, mentions}; of
\* several entries with one name the last one stays in the dict
calculate_proper_ranking(data, mentions_key) ==
    [company_name \in CompanyNames(data) |->
        LET item == data[CHOOSE i \in DOMAIN data :
                        /\ data[i]["company_name"] = company_name
                        /\ \A j \in DOMAIN data :
                              data[j]["company_name"] = company_name => j <= i]
        IN  [rank |-> proper_rank(data, mentions_key, item[mentions_key]),
             mentions |-> item[mentions_key]]]

\* the rank of a missing company without the "+ 1"
missing_rank_size(data) == Len(data)

\* the rank of a company that a source has no entry for
missing_rank(data) == Len(data) + 1

\* the entry calculate_comprehensive_ranking appends for one company
combined_entry(company_name, gdelt, newsapi, gdelt_ranks, newsapi_ranks) ==
    LET gdelt_info == company_name \in DOMAIN gdelt_ranks
        newsapi_info == company_name \in DOMAIN newsapi_ranks
        gdelt_rank == IF gdelt_info THEN gdelt_ranks[company_name].rank
                      ELSE missing_rank(gdelt)
        newsapi_rank == IF newsapi_info THEN newsapi_ranks[company_name].rank
                        ELSE missing_rank(newsapi)
    IN  [company_name |-> company_name,
         gdelt_mentions |-> IF gdelt_info THEN gdelt_ranks[company_name].mentions ELSE 0,
         gdelt_rank |-> gdelt_rank,
         newsapi_mentions |->
             IF newsapi_info THEN newsapi_ranks[company_name].mentions ELSE 0,
         newsapi_rank |-> newsapi_rank,
         combined_rank_score |-> gdelt_rank + newsapi_rank]

\* a sort by combined_rank_score that puts the greatest score first
SortByScoreReversed(ranking) ==
    LET place(i) ==
            Cardinality({j \in DOMAIN ranking :
                \/ ranking[j].combined_rank_score > ranking[i].combined_rank_score
                \/ /\ ranking[j].combined_rank_score = ranking[i].combined_rank_score
                   /\ j < i}) + 1
    IN  [p \in DOMAIN ranking |-> ranking[CHOOSE i \in DOMAIN ranking : place(i) = p]]

\* list.sort(key = combined_rank_score): ascending, and stable
SortByScore(ranking) ==
    LET place(i) ==
            Cardinality({j \in DOMAIN ranking :
                \/ ranking[j].combined_rank_score < ranking[i].combined_rank_score
                \/ /\ ranking[j].combined_rank_score = ranking[i].combined_rank_score
                   /\ j < i}) + 1
    IN  [p \in DOMAIN ranking |-> ranking[CHOOSE i \in DOMAIN ranking : place(i) = p]]

\* the final rank as the number of entries that are not worse
final_rank_ordinal(ranking, score) ==
    Cardinality({k \in DOMAIN ranking : ranking[k].combined_rank_score <= score})

\* the final-rank loop of calculate_comprehensive_ranking
final_rank(ranking, score) ==
    1 + Cardinality({k \in DOMAIN ranking : ranking[k].combined_rank_score < score})

\* calculate_comprehensive_ranking; all_companies is the order in which the
\* loop visits the set of names
calculate_comprehensive_ranking(gdelt, newsapi, all_companies) ==
    LET gdelt_ranks == calculate_proper_ranking(gdelt, "current_month_mentions")
        newsapi_ranks == calculate_proper_ranking(newsapi, "current_mentions")
        ranking == SortByScore(
            [k \in DOMAIN all_companies |->
                combined_entry(all_companies[k], gdelt, newsapi,
                               gdelt_ranks, newsapi_ranks)])
    IN  [k \in DOMAIN ranking |->
            [company_name |-> ranking[k].company_name,
             gdelt_mentions |-> ranking[k].gdelt_mentions,
             gdelt_rank |-> ranking[k].gdelt_rank,
             newsapi_mentions |-> ranking[k].newsapi_mentions,
             newsapi_rank |-> ranking[k].newsapi_rank,
             combined_rank_score |-> ranking[k].combined_rank_score,
             final_rank |-> final_rank(ranking, ranking[k].combined_rank_score)]]

-----------------------------------------------------------------------------
(* SpecRank: one combined ranking of two result sets of at most            *)
(* MaxRankEntries entries together.                                        *)

InitRank ==
    /\ pc = "ranking"
    /\ gdelt_data \in GdeltResults(Names, MentionCounts, MaxRankEntries)
    /\ newsapi_data \in
           NewsapiResults(Names, MentionCounts, MaxRankEntries - Len(gdelt_data))
    /\ gdelt_rank_map = None /\ newsapi_rank_map = None
    /\ comprehensive_ranking = None /\ prev_rank_map = None
    /\ ranking_with_changes = None
    /\ IdleChange /\ IdleMonth
    /\ IdleHeat
    /\ IdleStore
    /\ IdleBatch

\* get_comprehensive_ranking up to the combined ranking
ComprehensiveRanking ==
    /\ pc = "ranking"
    /\ \E all_companies \in
           IterationOrders(CompanyNames(gdelt_data) \cup CompanyNames(newsapi_data)) :
           comprehensive_ranking' =
               calculate_comprehensive_ranking(gdelt_data, newsapi_data, all_companies)
    /\ gdelt_rank_map' = calculate_proper_ranking(gdelt_data, "current_month_mentions")
    /\ newsapi_rank_map' = calculate_proper_ranking(newsapi_data, "current_mentions")
    /\ pc' = "ranked"
    /\ UNCHANGED <<gdelt_data, newsapi_data, prev_rank_map, ranking_with_changes,
                   changeVars, monthVars>>
    /\ UNCHANGED heatVars
    /\ UNCHANGED storeVars
    /\ UNCHANGED batchVars

NextRank == ComprehensiveRanking

SpecRank == InitRank /\ [][NextRank]_vars

-----------------------------------------------------------------------------
(* Claims about the combined ranking.                                      *)

\* rank_map ranks the entries of data by the metric mentions_key in
\* competition ranking
CompetitionRanked(data, mentions_key, rank_map) ==
    /\ DOMAIN rank_map = CompanyNames(data)
    /\ \A n \in DOMAIN rank_map :
          /\ \E i \in DOMAIN data :
                /\ data[i]["company_name"] = n
                /\ data[i][mentions_key] = rank_map[n].mentions
          /\ rank_map[n].rank =
                 1 + Cardinality({i \in DOMAIN data :
                                     data[i][mentions_key] > rank_map[n].mentions})
    /\ \A n, m \in DOMAIN rank_map :
          /\ rank_map[n].mentions > rank_map[m].mentions
                 => rank_map[n].rank < rank_map[m].rank
          /\ rank_map[n].mentions = rank_map[m].mentions
                 => rank_map[n].rank = rank_map[m].rank

\* C5: calculate_proper_ranking gives every entry rank = 1 + the number of
\* entries of the same collection with a strictly greater metric; a strictly
\* higher metric gets a strictly smaller rank and equal metrics get the same
\* rank.
C5_CompetitionRank ==
    pc = "ranked" =>
        /\ CompetitionRanked(gdelt_data, "current_month_mentions", gdelt_rank_map)
        /\ CompetitionRanked(newsapi_data, "current_mentions", newsapi_rank_map)

\* C5: metrics [50, 50, 30] have been given the ranks [1, 1, 3]
C5_Witness ==
    /\ pc = "ranked"
    /\ gdelt_data = <<[company_name |-> "a", current_month_mentions |-> 50],
                      [company_name |-> "b", current_month_mentions |-> 50],
                      [company_name |-> "c", current_month_mentions |-> 30]>>
    /\ gdelt_rank_map["a"].rank = 1
    /\ gdelt_rank_map["b"].rank = 1
    /\ gdelt_rank_map["c"].rank = 3

C7_FinalRank ==
    pc = "ranked" =>
        \A k \in DOMAIN comprehensive_ranking :
            comprehensive_ranking[k].final_rank =
                1 + Cardinality({j \in DOMAIN comprehensive_ranking :
                        comprehensive_ranking[j].combined_rank_score
                            < comprehensive_ranking[k].combined_rank_score})

\* C7: two entries of equal combined score share final rank 1 and the next
\* score has final rank 3
C7_Witness ==
    /\ pc = "ranked"
    /\ Len(comprehensive_ranking) = 3
    /\ comprehensive_ranking[1].combined_rank_score
           = comprehensive_ranking[2].combined_rank_score
    /\ comprehensive_ranking[1].final_rank = 1
    /\ comprehensive_ranking[2].final_rank = 1
    /\ comprehensive_ranking[3].final_rank = 3

\* the largest rank that calculate_proper_ranking gave to a company of a
\* source with at least one entry
LargestRank(rank_map) ==
    CHOOSE r \in {rank_map[n].rank : n \in DOMAIN rank_map} :
        \A n \in DOMAIN rank_map : rank_map[n].rank <= r

\* C18: the rank of a company missing from a source (number of entries of the
\* source + 1) is exactly one more than the largest rank of a company present
\* in that source, also when several present companies tie for the last place.
C18_MissingRankAfterWorst ==
    pc = "ranked" =>
        \A k \in DOMAIN comprehensive_ranking :
            LET e == comprehensive_ranking[k]
            IN  /\ (e.company_name \notin CompanyNames(gdelt_data) /\ gdelt_data # <<>>)
                       => e.gdelt_rank = LargestRank(gdelt_rank_map) + 1
                /\ (e.company_name \notin CompanyNames(newsapi_data)
                        /\ newsapi_data # <<>>)
                       => e.newsapi_rank = LargestRank(newsapi_rank_map) + 1

-----------------------------------------------------------------------------
(* calculate_ranking_changes: the rank movement against the month before.  *)

DeltaNames == {"a", "b"}
DeltaMentionCounts == {30, 50}
MaxDeltaEntries == 2

\* prev_rank_map of calculate_ranking_changes: company_name -> final_rank
previous_rank_map(prev_comprehensive_ranking) ==
    [company_name \in CompanyNames(prev_comprehensive_ranking) |->
        prev_comprehensive_ranking[
            CHOOSE k \in DOMAIN prev_comprehensive_ranking :
                /\ prev_comprehensive_ranking[k].company_name = company_name
                /\ \A j \in DOMAIN prev_comprehensive_ranking :
                      prev_comprehensive_ranking[j].company_name = company_name
                          => j <= k].final_rank]

\* the rank change taken as current rank minus previous rank
rank_change_reversed(prev_rank, current_rank) ==
    IF IsNone(prev_rank)
    THEN [rank_change |-> None, rank_change_direction |-> None]
    ELSE [rank_change |-> current_rank - prev_rank,
          rank_change_direction |->
              IF current_rank - prev_rank > 0 THEN "up"
              ELSE IF current_rank - prev_rank < 0 THEN "down" ELSE "same"]

\* rank_change and rank_change_direction of one entry
rank_change_info(prev_rank, current_rank) ==
    IF IsNone(prev_rank)
    THEN [rank_change |-> None, rank_change_direction |-> None]
    ELSE [rank_change |-> prev_rank - current_rank,
          rank_change_direction |->
              IF prev_rank - current_rank > 0 THEN "up"
              ELSE IF prev_rank - current_rank < 0 THEN "down" ELSE "same"]

\* the loop of calculate_ranking_changes over current_ranking: a copy of
\* every entry with the three fields of the rank change
ranking_with_changes_of(current_ranking, prev_ranks) ==
    [k \in DOMAIN current_ranking |->
        LET item == current_ranking[k]
            prev_rank == IF item.company_name \in DOMAIN prev_ranks
                         THEN prev_ranks[item.company_name] ELSE None
            info == rank_change_info(prev_rank, item.final_rank)
        IN  [previous_rank |-> prev_rank,
             rank_change |-> info.rank_change,
             rank_change_direction |-> info.rank_change_direction] @@ item]

\* an except branch that returns no entries
ranking_changes_except_empty(current_ranking) == <<>>

\* the except branch of calculate_ranking_changes: the current ranking as it
\* came in
ranking_changes_except(current_ranking) == current_ranking

\* the response of get_comprehensive_ranking
ranking_response(results) ==
    [success |-> TRUE, total_companies |-> Len(results), results |-> results]

-----------------------------------------------------------------------------
(* SpecDelta: get_comprehensive_ranking, from the two result sets of the   *)
(* target month to its response; each month has at most MaxDeltaEntries    *)
(* entries in the two sources together.                                    *)

InitDelta ==
    /\ pc = "ranking"
    /\ gdelt_data \in GdeltResults(DeltaNames, DeltaMentionCounts, MaxDeltaEntries)
    /\ newsapi_data \in NewsapiResults(DeltaNames, DeltaMentionCounts,
                                       MaxDeltaEntries - Len(gdelt_data))
    /\ gdelt_rank_map = None /\ newsapi_rank_map = None
    /\ comprehensive_ranking = None /\ prev_rank_map = None
    /\ ranking_with_changes = None
    /\ IdleChange /\ IdleMonth
    /\ IdleHeat
    /\ IdleStore
    /\ IdleBatch

\* calculate_ranking_changes when the previous month's ranking is computed
RankingChanges ==
    /\ pc = "ranked"
    /\ \E prev_gdelt_data \in
              GdeltResults(DeltaNames, DeltaMentionCounts, MaxDeltaEntries) :
       \E prev_newsapi_data \in
              NewsapiResults(DeltaNames, DeltaMentionCounts,
                             MaxDeltaEntries - Len(prev_gdelt_data)) :
       \E all_companies \in IterationOrders(CompanyNames(prev_gdelt_data)
                                            \cup CompanyNames(prev_newsapi_data)) :
          prev_rank_map' = previous_rank_map(
              calculate_comprehensive_ranking(prev_gdelt_data, prev_newsapi_data,
                                              all_companies))
    /\ ranking_with_changes' =
           ranking_with_changes_of(comprehensive_ranking, prev_rank_map')
    /\ result' = ranking_response(ranking_with_changes')
    /\ pc' = "done"
    /\ UNCHANGED <<gdelt_data, newsapi_data, gdelt_rank_map, newsapi_rank_map,
                   comprehensive_ranking, current_value, previous_value, monthVars>>
    /\ UNCHANGED heatVars
    /\ UNCHANGED storeVars
    /\ UNCHANGED batchVars

\* calculate_ranking_changes when reading or ranking the previous month
\* raises
RankingChangesExcept ==
    /\ pc = "ranked"
    /\ ranking_with_changes' = ranking_changes_except(comprehensive_ranking)
    /\ result' = ranking_response(ranking_with_changes')
    /\ pc' = "done_except"
    /\ UNCHANGED <<gdelt_data, newsapi_data, gdelt_rank_map, newsapi_rank_map,
                   comprehensive_ranking, prev_rank_map, current_value,
                   previous_value, monthVars>>
    /\ UNCHANGED heatVars
    /\ UNCHANGED storeVars
    /\ UNCHANGED batchVars

NextDelta ==
    \/ ComprehensiveRanking
    \/ RankingChanges
    \/ RankingChangesExcept

SpecDelta == InitDelta /\ [][NextDelta]_vars

-----------------------------------------------------------------------------
(* Claims about the rank movement.                                         *)

\* delta and direction of entry e against a previous rank that exists
MovementReported(e) ==
    /\ e.previous_rank = prev_rank_map[e.company_name]
    /\ e.rank_change = prev_rank_map[e.company_name] - e.final_rank
    /\ e.rank_change_direction =
           IF e.rank_change > 0 THEN "up"
           ELSE IF e.rank_change < 0 THEN "down" ELSE "same"

\* the entries of the current ranking are reported in their order
SameEntries ==
    /\ Len(ranking_with_changes) = Len(comprehensive_ranking)
    /\ \A k \in DOMAIN comprehensive_ranking :
          \A f \in DOMAIN comprehensive_ranking[k] :
              ranking_with_changes[k][f] = comprehensive_ranking[k][f]

-----------------------------------------------------------------------------
(* PeriodResolver: the comparison month of a target month.                 *)

Digits == {"0", "1", "2", "3", "4", "5", "6", "7", "8", "9"}

DigitValue(c) == CHOOSE d \in 0 .. 9 : DigitChar(d) = c

RECURSIVE Split(_)
\* str.split("-")
Split(s) ==
    IF \A i \in 1 .. Len(s) : s[i] # "-" THEN <<s>>
    ELSE LET i == CHOOSE k \in 1 .. Len(s) :
                      s[k] = "-" /\ \A j \in 1 .. (k - 1) : s[j] # "-"
         IN  <<SubSeq(s, 1, i - 1)>> \o Split(SubSeq(s, i + 1, Len(s)))

\* int(s) succeeds, for a string of digits, letters and hyphens without its
\* hyphens
IsInt(s) == s # <<>> /\ \A i \in 1 .. Len(s) : s[i] \in Digits

RECURSIVE IntOf(_)
\* int(s) of a string of digits
IntOf(s) ==
    IF s = <<>> THEN 0
    ELSE 10 * IntOf(SubSeq(s, 1, Len(s) - 1)) + DigitValue(s[Len(s)])

\* f"{n:0{width}d}": the sign counts in the width
ZeroPad(n, width) ==
    LET sign == IF n < 0 THEN <<"-">> ELSE <<>>
        digits == NatChars(Abs(n))
        zeros == [i \in 1 .. (width - Len(sign) - Len(digits)) |-> "0"]
    IN  sign \o zeros \o digits

\* target_year, target_month_num = map(int, target_month.split("-")) and
\* its ValueError
parse_target_month(month) ==
    LET parts == Split(month)
    IN  IF Len(parts) = 2 /\ IsInt(parts[1]) /\ IsInt(parts[2])
        THEN [exception |-> None,
              target_year |-> IntOf(parts[1]),
              target_month_num |-> IntOf(parts[2])]
        ELSE [exception |-> "ValueError"]

\* NewsAPIAnalysisService.calculate_monthly_mom_analysis up to previous_month;
\* storage_touched: the call goes on to its queries of the companies and
\* their mentions
mom_previous_month(month) ==
    LET parsed == parse_target_month(month)
    IN  IF parsed.exception = "ValueError"
        THEN [entry |-> "calculate_monthly_mom_analysis", policy |-> "mom", exception |-> "ValueError", previous_month |-> None,
              storage_touched |-> FALSE]
        ELSE LET previous_year == IF parsed.target_month_num = 1
                                  THEN parsed.target_year - 1
                                  ELSE parsed.target_year
                 previous_month_num == IF parsed.target_month_num = 1 THEN 12
                                       ELSE parsed.target_month_num - 1
             IN  [entry |-> "calculate_monthly_mom_analysis", policy |-> "mom", exception |-> None,
                  previous_month |-> ZeroPad(previous_year, 4) \o <<"-">>
                                         \o ZeroPad(previous_month_num, 2),
                  storage_touched |-> TRUE]

\* AnalysisService.calculate_monthly_yoy_analysis up to previous_month and,
\* in storage_touched, whether it goes on to its queries
yoy_previous_month(month) ==
    LET parsed == parse_target_month(month)
    IN  IF parsed.exception = "ValueError"
        THEN [entry |-> "calculate_monthly_yoy_analysis", policy |-> "yoy", exception |-> "ValueError", previous_month |-> None,
              storage_touched |-> FALSE]
        ELSE [entry |-> "calculate_monthly_yoy_analysis", policy |-> "yoy", exception |-> None,
              previous_month |-> ZeroPad(parsed.target_year - 1, 4) \o <<"-">>
                                     \o ZeroPad(parsed.target_month_num, 2),
              storage_touched |-> TRUE]

\* NewsAPIRealDataService.get_newsapi_mom_analysis up to previous_month: the
\* same arithmetic, the ValueError of the parse is not caught
realdata_previous_month(month) ==
    LET parsed == parse_target_month(month)
    IN  IF parsed.exception = "ValueError"
        THEN [entry |-> "get_newsapi_mom_analysis", policy |-> "mom", exception |-> "ValueError", previous_month |-> None,
              storage_touched |-> FALSE]
        ELSE LET prev_year == IF parsed.target_month_num = 1
                              THEN parsed.target_year - 1 ELSE parsed.target_year
                 prev_month == IF parsed.target_month_num = 1 THEN 12
                               ELSE parsed.target_month_num - 1
             IN  [entry |-> "get_newsapi_mom_analysis", policy |-> "mom", exception |-> None,
                  previous_month |->
                      ZeroPad(prev_year, 4) \o <<"-">> \o ZeroPad(prev_month, 2),
                  storage_touched |-> TRUE]

\* get_comprehensive_ranking: get_gdelt_ranking_data queries storage with the
\* month as it came in, then get_newsapi_mom_analysis parses it, and an
\* exception becomes the HTTPException of status 500
comprehensive_previous_month(month) ==
    LET newsapi_result == realdata_previous_month(month)
    IN  [entry |-> "get_comprehensive_ranking", policy |-> "mom",
         exception |-> IF newsapi_result.exception = "ValueError"
                       THEN "HTTPException" ELSE None,
         previous_month |-> newsapi_result.previous_month,
         storage_touched |-> TRUE]

-----------------------------------------------------------------------------
(* SpecMonth: the comparison month of one request, for well-formed and     *)
(* malformed target months.                                                *)

SampleYears == {0, 1, 999, 1000, 2024, 2025, 9999}

\* the key "YYYY-MM" of a month
MonthText(year, month_num) == ZeroPad(year, 4) \o <<"-">> \o ZeroPad(month_num, 2)

MalformedMonths ==
    {<<"2", "0", "2", "5", "-", "1", "3">>,
     <<"2", "0", "2", "5", "-", "0", "0">>,
     <<"2", "0", "2", "5", "-", "1", "-", "1">>,
     <<"2", "0", "2", "5", "-", "1">>,
     <<"2", "0", "2", "5", "0", "1">>,
     <<"a", "b", "c">>,
     <<>>}

TargetMonths ==
    {MonthText(y, m) : y \in SampleYears, m \in 1 .. 12} \cup MalformedMonths

InitMonth ==
    /\ pc = "request"
    /\ target_month \in TargetMonths
    /\ previous_month = None
    /\ current_value = 0 /\ previous_value = 0 /\ result = None
    /\ IdleRank
    /\ IdleHeat
    /\ IdleStore
    /\ IdleBatch

MoMPeriod ==
    /\ pc = "request"
    /\ result' = mom_previous_month(target_month)
    /\ previous_month' = result'.previous_month
    /\ pc' = "period"
    /\ UNCHANGED <<target_month, current_value, previous_value, rankVars>>
    /\ UNCHANGED heatVars
    /\ UNCHANGED storeVars
    /\ UNCHANGED batchVars

YoYPeriod ==
    /\ pc = "request"
    /\ result' = yoy_previous_month(target_month)
    /\ previous_month' = result'.previous_month
    /\ pc' = "period"
    /\ UNCHANGED <<target_month, current_value, previous_value, rankVars>>
    /\ UNCHANGED heatVars
    /\ UNCHANGED storeVars
    /\ UNCHANGED batchVars

RealDataPeriod ==
    /\ pc = "request"
    /\ result' = realdata_previous_month(target_month)
    /\ previous_month' = result'.previous_month
    /\ pc' = "period"
    /\ UNCHANGED <<target_month, current_value, previous_value, rankVars>>
    /\ UNCHANGED heatVars
    /\ UNCHANGED storeVars
    /\ UNCHANGED batchVars

ComprehensivePeriod ==
    /\ pc = "request"
    /\ result' = comprehensive_previous_month(target_month)
    /\ previous_month' = result'.previous_month
    /\ pc' = "period"
    /\ UNCHANGED <<target_month, current_value, previous_value, rankVars>>
    /\ UNCHANGED heatVars
    /\ UNCHANGED storeVars
    /\ UNCHANGED batchVars

NextMonth == MoMPeriod \/ YoYPeriod \/ RealDataPeriod \/ ComprehensivePeriod

SpecMonth == InitMonth /\ [][NextMonth]_vars

-----------------------------------------------------------------------------
(* Claims about the comparison month.                                      *)

\* s is a key YYYY-MM: four digits, a hyphen, and a month 01..12
IsMonthKey(s) ==
    /\ Len(s) = 7
    /\ \A i \in {1, 2, 3, 4, 6, 7} : s[i] \in Digits
    /\ s[5] = "-"
    /\ IntOf(SubSeq(s, 6, 7)) \in 1 .. 12

KeyYear(s) == IntOf(SubSeq(s, 1, 4))
KeyMonth(s) == IntOf(SubSeq(s, 6, 7))

\* C10: for every valid target month the month-over-month comparison period
\* is the preceding calendar month, the year-over-year one is the same month
\* of the year before, and the comparison key is a zero-padded YYYY-MM with
\* month in 01..12.
C10_ComparisonPeriod ==
    (pc = "period" /\ IsMonthKey(target_month)) =>
        /\ result.exception = None
        /\ IsMonthKey(previous_month)
        /\ IF result.policy = "yoy"
           THEN /\ KeyYear(previous_month) = KeyYear(target_month) - 1
                /\ KeyMonth(previous_month) = KeyMonth(target_month)
           ELSE IF KeyMonth(target_month) = 1
           THEN /\ KeyYear(previous_month) = KeyYear(target_month) - 1
                /\ KeyMonth(previous_month) = 12
           ELSE /\ KeyYear(previous_month) = KeyYear(target_month)
                /\ KeyMonth(previous_month) = KeyMonth(target_month) - 1

\* C11: a target month that is not a YYYY-MM with month 01..12 is rejected
\* by every analysis entry point (any exception is taken as the rejection),
\* and before the call has touched storage.
C11_MalformedRejected ==
    (pc = "period" /\ ~IsMonthKey(target_month)) =>
        /\ result.exception # None
        /\ ~result.storage_touched

-----------------------------------------------------------------------------
(* More float arithmetic: the sum and the mean of non-negative floats and  *)
(* round(x, 6).  Long numbers are handled in chunks of 24 bits.            *)

\* the chunks of 24 bits of a sequence of bits
BitChunks(bits) ==
    LET padded == Zeros((24 - (Len(bits) % 24)) % 24) \o bits
    IN  [j \in 1 .. (Len(padded) \div 24) |->
            BitsValue(SubSeq(padded, 24 * j - 23, 24 * j))]

\* the 24 * Len(chunks) bits of a sequence of chunks
ChunkBits(chunks) ==
    [i \in 1 .. 24 * Len(chunks) |->
        (chunks[((i - 1) \div 24) + 1] \div (2 ^ (23 - ((i - 1) % 24)))) % 2]

RECURSIVE AddChunks(_, _, _, _)
\* the chunks of (a[1 .. i] + b[1 .. i] + carry), a and b of equal length
AddChunks(a, b, i, carry) ==
    IF i = 0 THEN <<carry>>
    ELSE LET acc == a[i] + b[i] + carry
         IN  AddChunks(a, b, i - 1, acc \div (2 ^ 24)) \o <<acc % (2 ^ 24)>>

\* the bits of (a + b)
AddBits(a, b) ==
    LET L  == IF Len(a) > Len(b) THEN Len(a) ELSE Len(b)
        ca == BitChunks(Zeros(L - Len(a)) \o a)
        cb == BitChunks(Zeros(L - Len(b)) \o b)
    IN  StripZeros(ChunkBits(AddChunks(ca, cb, Len(ca), 0)))

\* the float x + y of two floats that are not negative
FloatAdd(x, y) ==
    IF x.sign = 0 THEN y
    ELSE IF y.sign = 0 THEN x
    ELSE LET lo  == IF x.e < y.e THEN x.e ELSE y.e
             mag == RoundNearestEven(AddBits(x.m \o Zeros(x.e - lo),
                                             y.m \o Zeros(y.e - lo)), lo)
         IN  [sign |-> 1, m |-> mag.m, e |-> mag.e]

RECURSIVE DivChunks(_, _, _, _)
\* the chunks of the quotient of chunks[i .. ] by n given the remainder rem
\* of what came before, and the last remainder (n a small positive integer)
DivChunks(chunks, i, n, rem) ==
    IF i > Len(chunks) THEN [chunks |-> <<>>, rem |-> rem]
    ELSE LET cur  == rem * (2 ^ 24) + chunks[i]
             rest == DivChunks(chunks, i + 1, n, cur % n)
         IN  [chunks |-> <<cur \div n>> \o rest.chunks, rem |-> rest.rem]

\* the float x / n, x a float that is not negative and n a small positive
\* Python int: 60 more bits of the quotient and one bit saying whether more
\* follow
FloatDivInt(x, n) ==
    IF x.sign = 0 THEN FloatZero
    ELSE LET q    == DivChunks(BitChunks(x.m \o Zeros(60)), 1, n, 0)
             bits == StripZeros(ChunkBits(q.chunks))
                         \o <<IF q.rem # 0 THEN 1 ELSE 0>>
             mag  == RoundNearestEven(bits, x.e - 61)
         IN  [sign |-> 1, m |-> mag.m, e |-> mag.e]

\* round(x, 6) of a float x that is not negative, in millionths: the exact
\* binary value of x correctly rounded, ties to even
RoundFloatMillionths(x) ==
    IF x.sign = 0 THEN 0
    ELSE LET p      == MulBits(x.m, 1000000)
             sh     == 0 - x.e
             padded == Zeros(sh + 1 - Len(p)) \o p
             L      == Len(padded)
             frac   == SubSeq(padded, L - sh + 1, L)
             whole  == BitsValue(SubSeq(padded, 1, L - sh))
             toEven == /\ frac[1] = 1
                       /\ (AnyOne(Tail(frac)) \/ whole % 2 = 1)
         IN  IF toEven THEN whole + 1 ELSE whole

-----------------------------------------------------------------------------
(* Heat index.  A heat index is kept in millionths (the reducer rounds it  *)
(* to 6 decimals, so that 0.5 is 500000); a sample of a response is kept   *)
(* in units of 10^-7 (1.2 is 12000000).  The heat levels "extreme",        *)
(* "very hot", "hot", "warm", "mild" and "cold" stand for the six labels   *)
(* of HeatIndex.heat_level, in the order of its branches.                  *)

\* HeatIndex.heat_level with the first threshold exclusive
heat_level_exclusive(h) ==
    IF h > 1000000 THEN "extreme"
    ELSE IF h >= 500000 THEN "very hot"
    ELSE IF h >= 200000 THEN "hot"
    ELSE IF h >= 100000 THEN "warm"
    ELSE IF h > 0 THEN "mild"
    ELSE "cold"

\* HeatIndex.heat_level of a heat index of h millionths
heat_level(h) ==
    IF h >= 1000000 THEN "extreme"
    ELSE IF h >= 500000 THEN "very hot"
    ELSE IF h >= 200000 THEN "hot"
    ELSE IF h >= 100000 THEN "warm"
    ELSE IF h > 0 THEN "mild"
    ELSE "cold"

\* the values of one point of a time-line: [type, units], the Python type of
\* the value and, for a number, its value in units of 10^-7 (True is 1)
PointValues ==
    [type : {"float"}, units : {12000000, 8000000, 2000000, 1000000, 5, 0}]
        \cup {[type |-> "int", units |-> 10000000],
              [type |-> "bool", units |-> 10000000],
              [type |-> "str", units |-> 0],
              [type |-> "NoneType", units |-> 0]}

\* a point of a time-line: a dict with a "value", a dict without one, or
\* something that is not a dict
Points ==
    {[shape |-> "value", type |-> v.type, units |-> v.units] : v \in PointValues}
        \cup {[shape |-> "no_value", type |-> "NoneType", units |-> 0],
              [shape |-> "not_dict", type |-> "NoneType", units |-> 0]}

\* the most points a response holds
MaxPoints == 2

\* an item of a time-line: a dict whose "data" is a list of points, a dict
\* whose "data" is null, a dict without "data", or something that is not a
\* dict
ItemsOf(n) ==
    {[shape |-> "data_list", data |-> d] : d \in Lists(n, Points)}
        \cup {[shape |-> sh, data |-> <<>>] :
                 sh \in {"data_none", "no_data", "not_dict"}}

\* the time-lines: a list of at most two items
Timelines ==
    {<<>>} \cup {<<i>> : i \in ItemsOf(MaxPoints)}
           \cup {<<i, j>> : i \in ItemsOf(1), j \in ItemsOf(MaxPoints - 1)}

\* the responses: null, an empty object, an object without "timeline", one
\* whose "timeline" is null, and one with a time-line
Responses ==
    {[shape |-> sh, timeline |-> <<>>] :
        sh \in {"None", "empty_dict", "no_timeline", "timeline_none"}}
        \cup {[shape |-> "timeline", timeline |-> t] : t \in Timelines}

\* isinstance(volume_value, (int, float)): a bool is an int
is_int_or_float(point) == point.type \in {"int", "float", "bool"}

RECURSIVE item_values(_, _)
\* the units of the values the inner loop appends for data_points[1 .. i]
item_values(data_points, i) ==
    IF i = 0 THEN <<>>
    ELSE item_values(data_points, i - 1) \o
             (IF data_points[i].shape = "value" /\ is_int_or_float(data_points[i])
              THEN <<data_points[i].units>> ELSE <<>>)

RECURSIVE volume_values(_, _)
\* the units of volume_values after the items timeline[1 .. i]
volume_values(timeline, i) ==
    IF i = 0 THEN <<>>
    ELSE volume_values(timeline, i - 1) \o
             (IF timeline[i].shape = "data_list"
              THEN item_values(timeline[i].data, Len(timeline[i].data))
              ELSE <<>>)

\* float(volume_value)
sample_float(units) == FloatDiv(units, 10000000)

RECURSIVE sum_floats(_, _)
\* sum(values[1 .. i]): 0 + values[1] + ... + values[i], left to right
sum_floats(values, i) ==
    IF i = 0 THEN FloatZero
    ELSE FloatAdd(sum_floats(values, i - 1), sample_float(values[i]))

\* iterating over the response raises TypeError: "timeline" or a "data" is
\* null
process_raises(response) ==
    \/ response.shape = "timeline_none"
    \/ /\ response.shape = "timeline"
       /\ \E i \in 1 .. Len(response.timeline) :
              response.timeline[i].shape = "data_none"

\* _process_heat_index_response that returns the sum of the samples
_process_heat_index_response_sum(response) ==
    LET values == volume_values(response.timeline, Len(response.timeline))
    IN  IF response.shape \in {"None", "empty_dict", "no_timeline"}
        THEN [success |-> TRUE, timelinevol_value |-> 0, data_points_count |-> 0]
        ELSE IF process_raises(response)
        THEN [success |-> FALSE, timelinevol_value |-> 0, data_points_count |-> 0]
        ELSE IF values = <<>>
        THEN [success |-> TRUE, timelinevol_value |-> 0, data_points_count |-> 0]
        ELSE [success |-> TRUE,
              timelinevol_value |->
                  RoundFloatMillionths(sum_floats(values, Len(values))),
              data_points_count |-> Len(values)]

\* GDELTAPIService._process_heat_index_response(data, company_name): the
\* success flag, the heat index in millionths and the number of samples
_process_heat_index_response(response) ==
    LET values == volume_values(response.timeline, Len(response.timeline))
    IN  IF response.shape \in {"None", "empty_dict", "no_timeline"}
        THEN [success |-> TRUE, timelinevol_value |-> 0, data_points_count |-> 0]
        ELSE IF process_raises(response)
        THEN [success |-> FALSE, timelinevol_value |-> 0, data_points_count |-> 0]
        ELSE IF values = <<>>
        THEN [success |-> TRUE, timelinevol_value |-> 0, data_points_count |-> 0]
        ELSE [success |-> TRUE,
              timelinevol_value |->
                  RoundFloatMillionths(
                      FloatDivInt(sum_floats(values, Len(values)), Len(values))),
              data_points_count |-> Len(values)]

-----------------------------------------------------------------------------
(* SpecHeat: either one response is reduced and its heat index is stored,  *)
(* and then the level of the stored heat index is read; or the level of a  *)
(* heat index of HeatSamples is read.                                      *)

\* stored heat indices: the thresholds and their neighbours, in millionths
HeatSamples ==
    UNION {{t - 1, t, t + 1} : t \in {0, 100000, 200000, 500000, 1000000}}
        \cup {-1000000, 50000, 150000, 300000, 750000, 5000000}

InitHeat ==
    /\ \/ /\ pc = "collect"
          /\ response_data \in Responses
          /\ heat_index = 0
       \/ /\ pc = "stored"
          /\ response_data = [shape |-> "None", timeline |-> <<>>]
          /\ heat_index \in HeatSamples
    /\ heat_data = None
    /\ IdleChange /\ IdleRank /\ IdleMonth /\ IdleStore
    /\ IdleBatch

\* calculate_monthly_heat_index for one company: the response is reduced and
\* HeatIndex.heat_index is set to its timelinevol_value
ProcessHeatIndexResponse ==
    /\ pc = "collect"
    /\ heat_data' = _process_heat_index_response(response_data)
    /\ heat_index' = heat_data'.timelinevol_value
    /\ pc' = "stored"
    /\ UNCHANGED <<response_data, changeVars, rankVars, monthVars>>
    /\ UNCHANGED storeVars
    /\ UNCHANGED batchVars

\* HeatIndex.heat_level is read
HeatLevel ==
    /\ pc = "stored"
    /\ result' = [entry |-> "heat_level", heat_level |-> heat_level(heat_index)]
    /\ pc' = "level"
    /\ UNCHANGED <<current_value, previous_value, rankVars, monthVars, heatVars>>
    /\ UNCHANGED storeVars
    /\ UNCHANGED batchVars

NextHeat == ProcessHeatIndexResponse \/ HeatLevel

SpecHeat == InitHeat /\ [][NextHeat]_vars

\* the heat levels, coolest first
HeatLevels == <<"cold", "mild", "warm", "hot", "very hot", "extreme">>

\* how hot a level is: its place in HeatLevels
Warmth(level) == CHOOSE i \in 1 .. Len(HeatLevels) : HeatLevels[i] = level

\* the band of the ladder the heat index h lies in
HeatBand(h) ==
    {level \in {HeatLevels[i] : i \in 1 .. Len(HeatLevels)} :
        \/ level = "extreme" /\ h >= 1000000
        \/ level = "very hot" /\ 500000 <= h /\ h < 1000000
        \/ level = "hot" /\ 200000 <= h /\ h < 500000
        \/ level = "warm" /\ 100000 <= h /\ h < 200000
        \/ level = "mild" /\ 0 < h /\ h < 100000
        \/ level = "cold" /\ h <= 0}

\* C12: the level read for a heat index h is the one level whose band holds
\* h (h >= 1.0 "extreme", 0.5 <= h < 1.0 "very hot", 0.2 <= h < 0.5 "hot",
\* 0.1 <= h < 0.2 "warm", 0 < h < 0.1 "mild", h <= 0 "cold"), and no smaller
\* heat index has a hotter level.
C12_HeatLevel ==
    pc = "level" =>
        /\ HeatBand(heat_index) = {result.heat_level}
        /\ \A g \in HeatSamples :
               g <= heat_index =>
                   Warmth(heat_level(g)) <= Warmth(result.heat_level)

\* C12 witness: the level of a heat index of exactly 1.0 has been read
C12_Witness == pc = "level" /\ heat_index = 1000000 /\ IsNone(heat_data)

\* the numeric samples of the reduced response, in units of 10^-7
NumericSamples ==
    volume_values(response_data.timeline, Len(response_data.timeline))

RECURSIVE SumUnits(_, _)
\* the exact sum of values[1 .. i]
SumUnits(values, i) ==
    IF i = 0 THEN 0 ELSE SumUnits(values, i - 1) + values[i]

\* a response has been reduced and the level of its heat index read
HeatReduced == pc = "level" /\ ~IsNone(heat_data)

\* C13: the heat index of a reduced response is the arithmetic mean of its
\* numeric samples rounded to 6 decimals (it lies within half a millionth
\* of the exact mean); a response with no numeric sample gives 0.0 and
\* "cold"; the samples [1.2, 0.8] give 1.0 and "extreme".  A numeric sample
\* is a value the reducer's isinstance test takes for an int or a float.
\* A response the reducer cannot iterate (a null "timeline" or "data") is
\* reported as a failure, success False, and is not a reduction.
C13_MeanOfSamples ==
    HeatReduced =>
        LET n == Len(NumericSamples)
            S == SumUnits(NumericSamples, n)
        IN  /\ n = 0 => heat_index = 0 /\ result.heat_level = "cold"
            /\ (n > 0 /\ heat_data.success) =>
                   /\ 2 * (heat_index * 10 * n - S) <= 10 * n
                   /\ 2 * (S - heat_index * 10 * n) <= 10 * n
            /\ (NumericSamples = <<12000000, 8000000>> /\ heat_data.success) =>
                   heat_index = 1000000 /\ result.heat_level = "extreme"

\* C13 witness: the samples [1.2, 0.8] have been reduced to 1.0, "extreme"
C13_Witness ==
    /\ HeatReduced
    /\ NumericSamples = <<12000000, 8000000>>
    /\ heat_data.success
    /\ heat_index = 1000000
    /\ result.heat_level = "extreme"

-----------------------------------------------------------------------------
(* Storage and the analysis runs.  A table is the sequence of its rows in  *)
(* id order; a query's first() gives the matching row of the lowest id,    *)
(* 0 standing for None.  Every run has a session of its own.  A commit     *)
(* expires every object of the session (expire_on_commit), so that the     *)
(* next read of an attribute of a Company is a storage read; so does the   *)
(* rollback after a commit that failed.                                    *)

\* the number of active companies; their ids are 1 .. MaxCompanies
MaxCompanies == 2
Companies == 1 .. MaxCompanies

\* the data_source values of the MonthlyMention rows
AllSources == {"gdelt_doc", "newsapi"}

\* the month the runs analyse, and the months they compare it with
AnalysisMonth == MonthText(2025, 9)
YoYMonth == yoy_previous_month(AnalysisMonth).previous_month
MoMMonth == mom_previous_month(AnalysisMonth).previous_month

\* the MonthlyMention rows a company can have at the start:
\* <<year_month, mention_count, data_source>> each
MentionProfiles ==
    {<<>>,
     <<<<AnalysisMonth, 10, "gdelt_doc">>>>,
     <<<<YoYMonth, 10, "gdelt_doc">>, <<AnalysisMonth, 15, "gdelt_doc">>>>,
     <<<<YoYMonth, 0, "gdelt_doc">>, <<AnalysisMonth, 0, "gdelt_doc">>>>,
     <<<<YoYMonth, 10, "gdelt_doc">>, <<AnalysisMonth, 5, "gdelt_doc">>>>,
     <<<<MoMMonth, 10, "newsapi">>, <<AnalysisMonth, 20, "newsapi">>>>}

RECURSIVE MentionTable(_, _)
\* the rows of the companies 1 .. n, company n having the rows profile[n]
MentionTable(profile, n) ==
    IF n = 0 THEN <<>>
    ELSE MentionTable(profile, n - 1) \o
             [k \in 1 .. Len(profile[n]) |->
                 [company_id |-> n,
                  year_month |-> profile[n][k][1],
                  mention_count |-> profile[n][k][2],
                  data_source |-> profile[n][k][3]]]

\* the lowest of a set of ids, 0 if there is none: Query.first()
first(ids) == IF ids = {} THEN 0 ELSE CHOOSE i \in ids : \A j \in ids : i <= j

\* the MonthlyMention row of a company and month whose source is in sources
first_mention(mentions, company_id, year_month, sources) ==
    first({k \in DOMAIN mentions :
              /\ mentions[k].company_id = company_id
              /\ mentions[k].year_month = year_month
              /\ mentions[k].data_source \in sources})

\* the analysis row of a company and month
first_analysis(analysis, company_id, analysis_month) ==
    first({k \in DOMAIN analysis :
              /\ analysis[k].company_id = company_id
              /\ analysis[k].analysis_month = analysis_month})

\* current_data.mention_count if current_data else 0
count_of(mentions, id) == IF id = 0 THEN 0 ELSE mentions[id].mention_count

\* a run that has not started; faulted (the companies whose lookup raised),
\* overlapped (another run was active during this one) and rows_at_return
\* (the analysis rows when the run returned) only record what happened
IdleRun ==
    [kind |-> "None", pc |-> "idle", i |-> 0,
     current_data |-> 0, previous_data |-> 0, change |-> None, existing |-> 0,
     results |-> <<>>, successful_count |-> 0, failed_count |-> 0,
     expired |-> FALSE, exception |-> None,
     faulted |-> {}, overlapped |-> FALSE, rows_at_return |-> <<>>]

RunIds == {1, 2}

\* some run other than r is between its start and its end
OtherRunActive(r) ==
    \E q \in RunIds \ {r} : runs[q].pc \notin {"idle", "done", "raised"}

\* the entry of a company whose lookup raised
failed_entry(company_id) ==
    [company_id |-> company_id, status |-> "failed", error |-> "Exception"]

\* the entry _calculate_company_yoy returns, change being the change fields
\* computed from the two counts
yoy_entry(company_id, current_mentions, previous_mentions, change) ==
    [company_id |-> company_id,
     analysis_month |-> AnalysisMonth,
     current_month_mentions |-> current_mentions,
     previous_year_mentions |-> previous_mentions,
     monthly_change_percentage |-> change.monthly_change_percentage,
     formatted_change |-> change.formatted_change,
     status |-> "success"]

\* the MonthlyYoYAnalysis row _calculate_company_yoy writes
yoy_row(company_id, current_mentions, previous_mentions, change_percentage) ==
    [company_id |-> company_id,
     analysis_month |-> AnalysisMonth,
     current_month_mentions |-> current_mentions,
     previous_year_mentions |-> previous_mentions,
     monthly_change_percentage |-> change_percentage,
     status |-> "success"]

\* the entry _calculate_company_mom returns
mom_entry(company_id, current_mentions, previous_mentions, change) ==
    [company_id |-> company_id,
     analysis_month |-> AnalysisMonth,
     current_month_mentions |-> current_mentions,
     previous_month_mentions |-> previous_mentions,
     monthly_change_percentage |-> change.monthly_change_percentage,
     formatted_change |-> change.formatted_change,
     status |-> "success",
     data_source |-> "newsapi"]

\* the entry get_newsapi_mom_analysis appends: current_data and
\* previous_data are row ids
realdata_entry(company_id, mentions, current_data, previous_data, change) ==
    [company_id |-> company_id,
     current_month |-> AnalysisMonth,
     previous_month |-> MoMMonth,
     current_mentions |-> count_of(mentions, current_data),
     previous_mentions |-> count_of(mentions, previous_data),
     change_percentage |-> change.change_percentage,
     formatted_change |-> change.formatted_change,
     status |-> IF current_data # 0 \/ previous_data # 0
                THEN "success" ELSE "no_data"]

\* list.sort(key = ..., reverse = True) of a list of entries whose key is
\* the field named key: greatest first, equal keys in their former order
sort_reverse(list, key) ==
    LET place(i) ==
            Cardinality({j \in DOMAIN list :
                \/ list[j][key] > list[i][key]
                \/ list[j][key] = list[i][key] /\ j < i}) + 1
    IN  [p \in DOMAIN list |-> list[CHOOSE i \in DOMAIN list : place(i) = p]]

\* the run r with the entry of its company appended, the next company next
next_company(run, entry) ==
    [run EXCEPT !.results = Append(@, entry),
                !.successful_count = IF entry.status = "success" THEN @ + 1 ELSE @,
                !.failed_count = IF entry.status = "success" THEN @ ELSE @ + 1,
                !.i = @ + 1,
                !.pc = "lookup"]

\* the except clause of the loop has appended the "failed" entry
handled(run) ==
    [run EXCEPT !.results = Append(@, failed_entry(run.i)),
                !.failed_count = @ + 1,
                !.faulted = @ \cup {run.i},
                !.i = @ + 1,
                !.pc = "lookup"]

\* the run r starts: it reads the active companies
Start(r, kind) ==
    /\ runs[r].pc = "idle"
    /\ runs' = [q \in RunIds |->
                   IF q = r
                   THEN [IdleRun EXCEPT !.kind = kind, !.pc = "lookup", !.i = 1,
                                        !.overlapped = OtherRunActive(r)]
                   ELSE IF runs[q].pc \in {"idle", "done", "raised"} THEN runs[q]
                   ELSE [runs[q] EXCEPT !.overlapped = TRUE]]
    /\ UNCHANGED <<pc, changeVars, rankVars, monthVars, heatVars, batchVars,
                   monthly_mentions, yoy_analysis, mom_analysis>>

\* AnalysisService.calculate_monthly_yoy_analysis is called
StartYoY(r) == Start(r, "yoy")

\* NewsAPIAnalysisService.calculate_monthly_mom_analysis is called
StartMoM(r) == Start(r, "mom")

\* NewsAPIRealDataService.get_newsapi_mom_analysis is called
StartRealData(r) == Start(r, "realdata")

\* get_gdelt_ranking_data_fallback is called
StartFallback(r) == Start(r, "fallback")

\* the run r is in its loop, at a company
AtCompany(r, kind, at) ==
    /\ runs[r].kind = kind
    /\ runs[r].pc = at
    /\ runs[r].i <= MaxCompanies

\* the two MonthlyMention lookups of a company and the change computed from
\* their counts by the analyzer's change operator
looked_up(run, sources, compared_month, change) ==
    [run EXCEPT !.current_data =
                    first_mention(monthly_mentions, run.i, AnalysisMonth, sources),
                !.previous_data =
                    first_mention(monthly_mentions, run.i, compared_month, sources),
                !.change = change]

\* the count of the MonthlyMention row the run r found for the analysed
\* month, and for the month it is compared with
CurrentMentions(r) == count_of(monthly_mentions, runs[r].current_data)
PreviousMentions(r) == count_of(monthly_mentions, runs[r].previous_data)

\* _calculate_company_yoy up to the lookup of the existing analysis row
CompanyYoYLookup(r) ==
    /\ AtCompany(r, "yoy", "lookup")
    /\ LET c == runs[r].i
           current_data == first_mention(monthly_mentions, c, AnalysisMonth,
                                         AllSources)
           previous_data == first_mention(monthly_mentions, c, YoYMonth,
                                          AllSources)
       IN  runs' = [runs EXCEPT ![r] =
               [looked_up(@, AllSources, YoYMonth,
                          AnalysisService_change(
                              count_of(monthly_mentions, current_data),
                              count_of(monthly_mentions, previous_data)))
                   EXCEPT !.existing =
                              first_analysis(yoy_analysis, c, AnalysisMonth),
                          !.pc = "save"]]
    /\ UNCHANGED <<pc, changeVars, rankVars, monthVars, heatVars, batchVars,
                   monthly_mentions, yoy_analysis, mom_analysis>>

\* _calculate_company_yoy that inserts a row whether or not one exists
yoy_saved_insert(r) ==
    Append(yoy_analysis,
           yoy_row(runs[r].i, CurrentMentions(r), PreviousMentions(r),
                   runs[r].change.change_percentage))

\* the analysis table after run r's update or insert has been committed
yoy_saved(r) ==
    LET row == yoy_row(runs[r].i, CurrentMentions(r), PreviousMentions(r),
                       runs[r].change.change_percentage)
    IN  IF runs[r].existing # 0
        THEN [yoy_analysis EXCEPT ![runs[r].existing] =
                 [@ EXCEPT !.current_month_mentions = row.current_month_mentions,
                           !.previous_year_mentions = row.previous_year_mentions,
                           !.monthly_change_percentage =
                               row.monthly_change_percentage,
                           !.status = "success"]]
        ELSE Append(yoy_analysis, row)

\* _calculate_company_yoy from the update or insert on: the row is
\* committed and the entry returned
CompanyYoYSave(r) ==
    /\ AtCompany(r, "yoy", "save")
    /\ yoy_analysis' = yoy_saved(r)
    /\ runs' = [runs EXCEPT ![r] =
           next_company([@ EXCEPT !.expired = TRUE],
                        yoy_entry(@.i, CurrentMentions(r), PreviousMentions(r),
                                  @.change))]
    /\ UNCHANGED <<pc, changeVars, rankVars, monthVars, heatVars, batchVars,
                   monthly_mentions, mom_analysis>>

\* a lookup of the company raises (the reload of the expired company, or a
\* query), and the except clause appends "failed"
LookupRaises(r) ==
    /\ AtCompany(r, "yoy", "lookup") \/ AtCompany(r, "mom", "lookup")
    /\ runs' = [runs EXCEPT ![r] = handled(@)]
    /\ UNCHANGED <<pc, changeVars, rankVars, monthVars, heatVars, batchVars,
                   monthly_mentions, yoy_analysis, mom_analysis>>

\* the commit raises and is rolled back, and the except clause appends
\* "failed"
CommitRaises(r) ==
    /\ AtCompany(r, "yoy", "save")
    /\ runs' = [runs EXCEPT ![r] = handled([@ EXCEPT !.expired = TRUE])]
    /\ UNCHANGED <<pc, changeVars, rankVars, monthVars, heatVars, batchVars,
                   monthly_mentions, yoy_analysis, mom_analysis>>

\* the row is committed, the reload of the company for the entry to return
\* raises, and the except clause appends "failed"
ReturnRaises(r) ==
    /\ AtCompany(r, "yoy", "save")
    /\ yoy_analysis' = yoy_saved(r)
    /\ runs' = [runs EXCEPT ![r] = handled([@ EXCEPT !.expired = TRUE])]
    /\ UNCHANGED <<pc, changeVars, rankVars, monthVars, heatVars, batchVars,
                   monthly_mentions, mom_analysis>>

\* a lookup or a commit raised while the company is expired, and the reload
\* of company.cleaned_name in the except clause raises too: the exception
\* leaves calculate_monthly_yoy_analysis.  The company is expired at a
\* lookup when the session has committed before, and after every commit and
\* every rollback; the row may or may not have been committed.
HandlerRaises(r) ==
    /\ \/ AtCompany(r, "yoy", "lookup") /\ runs[r].expired
          /\ UNCHANGED yoy_analysis
       \/ AtCompany(r, "yoy", "save")
          /\ yoy_analysis' \in {yoy_analysis, yoy_saved(r)}
    /\ runs' = [runs EXCEPT ![r] =
           [@ EXCEPT !.pc = "raised", !.exception = "Exception",
                     !.faulted = @ \cup {runs[r].i}]]
    /\ UNCHANGED <<pc, changeVars, rankVars, monthVars, heatVars, batchVars,
                   monthly_mentions, mom_analysis>>

\* _calculate_company_mom up to the change it computes
CompanyMoMLookup(r) ==
    /\ AtCompany(r, "mom", "lookup")
    /\ LET c == runs[r].i
           current_data == first_mention(monthly_mentions, c, AnalysisMonth,
                                         {"newsapi"})
           previous_data == first_mention(monthly_mentions, c, MoMMonth,
                                          {"newsapi"})
       IN  runs' = [runs EXCEPT ![r] =
               [looked_up(@, {"newsapi"}, MoMMonth,
                          NewsAPIAnalysisService_change(
                              count_of(monthly_mentions, current_data),
                              count_of(monthly_mentions, previous_data)))
                   EXCEPT !.pc = "return"]]
    /\ UNCHANGED <<pc, changeVars, rankVars, monthVars, heatVars, batchVars,
                   monthly_mentions, yoy_analysis, mom_analysis>>

\* _calculate_company_mom returns its entry
CompanyMoMReturn(r) ==
    /\ AtCompany(r, "mom", "return")
    /\ runs' = [runs EXCEPT ![r] =
           next_company(@, mom_entry(@.i, CurrentMentions(r), PreviousMentions(r),
                                     @.change))]
    /\ UNCHANGED <<pc, changeVars, rankVars, monthVars, heatVars, batchVars,
                   monthly_mentions, yoy_analysis, mom_analysis>>

\* one round of the loop of get_newsapi_mom_analysis up to the change it
\* computes
RealDataLookup(r) ==
    /\ AtCompany(r, "realdata", "lookup")
    /\ LET c == runs[r].i
           current_data == first_mention(monthly_mentions, c, AnalysisMonth,
                                         {"newsapi"})
           previous_data == first_mention(monthly_mentions, c, MoMMonth,
                                          {"newsapi"})
       IN  runs' = [runs EXCEPT ![r] =
               [looked_up(@, {"newsapi"}, MoMMonth,
                          RealDataService_change(
                              count_of(monthly_mentions, current_data),
                              count_of(monthly_mentions, previous_data)))
                   EXCEPT !.pc = "append"]]
    /\ UNCHANGED <<pc, changeVars, rankVars, monthVars, heatVars, batchVars,
                   monthly_mentions, yoy_analysis, mom_analysis>>

\* get_newsapi_mom_analysis appends the entry of the company
RealDataAppend(r) ==
    /\ AtCompany(r, "realdata", "append")
    /\ runs' = [runs EXCEPT ![r] =
           [@ EXCEPT !.results =
                         Append(@, realdata_entry(runs[r].i, monthly_mentions,
                                                  runs[r].current_data,
                                                  runs[r].previous_data,
                                                  runs[r].change)),
                     !.i = @ + 1,
                     !.pc = "lookup"]]
    /\ UNCHANGED <<pc, changeVars, rankVars, monthVars, heatVars, batchVars,
                   monthly_mentions, yoy_analysis, mom_analysis>>

\* a lookup of get_newsapi_mom_analysis raises: its loop has no try
RealDataRaises(r) ==
    /\ AtCompany(r, "realdata", "lookup")
    /\ runs' = [runs EXCEPT ![r] =
           [@ EXCEPT !.pc = "raised", !.exception = "Exception",
                     !.faulted = @ \cup {runs[r].i}]]
    /\ UNCHANGED <<pc, changeVars, rankVars, monthVars, heatVars, batchVars,
                   monthly_mentions, yoy_analysis, mom_analysis>>

\* the entry get_gdelt_ranking_data_fallback appends
fallback_entry(company_id, current_mentions) ==
    [company_id |-> company_id,
     current_month_mentions |-> current_mentions,
     target_month |-> AnalysisMonth]

\* one company of the loop of get_gdelt_ranking_data_fallback
FallbackCompany(r) ==
    /\ AtCompany(r, "fallback", "lookup")
    /\ LET current_data == first_mention(monthly_mentions, runs[r].i, AnalysisMonth,
                                         {"gdelt_doc", "gdelt_event"})
       IN  runs' = [runs EXCEPT ![r] =
               [@ EXCEPT !.current_data = current_data,
                         !.results =
                             Append(@, fallback_entry(runs[r].i,
                                        count_of(monthly_mentions, current_data))),
                         !.i = @ + 1]]
    /\ UNCHANGED <<pc, changeVars, rankVars, monthVars, heatVars, batchVars,
                   monthly_mentions, yoy_analysis, mom_analysis>>

\* the lookup of the company raises: the except clause logs and continues
\* with the next company
FallbackRaises(r) ==
    /\ AtCompany(r, "fallback", "lookup")
    /\ runs' = [runs EXCEPT ![r] =
           [@ EXCEPT !.faulted = @ \cup {runs[r].i}, !.i = @ + 1]]
    /\ UNCHANGED <<pc, changeVars, rankVars, monthVars, heatVars, batchVars,
                   monthly_mentions, yoy_analysis, mom_analysis>>

\* the loop is over and the run returns its results;
\* get_newsapi_mom_analysis and get_gdelt_ranking_data_fallback sort them
\* first
Return(r) ==
    /\ runs[r].pc = "lookup"
    /\ runs[r].i > MaxCompanies
    /\ runs' = [runs EXCEPT ![r] =
           [@ EXCEPT !.pc = "done",
                     !.rows_at_return = yoy_analysis,
                     !.results = IF runs[r].kind = "realdata"
                                 THEN sort_reverse(@, "change_percentage")
                                 ELSE IF runs[r].kind = "fallback"
                                 THEN sort_reverse(@, "current_month_mentions")
                                 ELSE @]]
    /\ UNCHANGED <<pc, changeVars, rankVars, monthVars, heatVars, batchVars,
                   monthly_mentions, yoy_analysis, mom_analysis>>

\* float(x.monthly_change_percentage or 0): the sort key of
\* get_monthly_yoy_results and get_monthly_mom_results, in tenths
results_sort_key(monthly_change_percentage) ==
    IF IsNone(monthly_change_percentage) THEN 0 ELSE monthly_change_percentage

\* results.sort(key = ..., reverse = True) of those two functions
sort_results(results) ==
    LET key(i) == results_sort_key(results[i].monthly_change_percentage)
        place(i) ==
            Cardinality({j \in DOMAIN results :
                \/ key(j) > key(i)
                \/ key(j) = key(i) /\ j < i}) + 1
    IN  [p \in DOMAIN results |->
            results[CHOOSE i \in DOMAIN results : place(i) = p]]

\* the ids of the rows of an analysis table for the month, in id order
RECURSIVE month_rows(_, _)
month_rows(analysis, n) ==
    IF n = 0 THEN <<>>
    ELSE month_rows(analysis, n - 1) \o
             (IF analysis[n].analysis_month = AnalysisMonth THEN <<n>> ELSE <<>>)

\* what get_monthly_yoy_results and get_monthly_mom_results return for the
\* rows of their table; previous_key is the name of the field of the
\* compared count
monthly_results(name, analysis, previous_key) ==
    LET ids == month_rows(analysis, Len(analysis))
        results ==
            [k \in DOMAIN ids |->
                [id |-> ids[k],
                 company_id |-> analysis[ids[k]].company_id,
                 analysis_month |-> analysis[ids[k]].analysis_month,
                 current_month_mentions |-> analysis[ids[k]].current_month_mentions,
                 previous_mentions |-> analysis[ids[k]][previous_key],
                 monthly_change_percentage |->
                     analysis[ids[k]].monthly_change_percentage,
                 status |-> analysis[ids[k]].status,
                 formatted_change |->
                     _format_percentage_change(
                         analysis[ids[k]].monthly_change_percentage)]]
    IN  [entry |-> name,
         results |-> sort_results(results),
         total_companies |-> Len(results),
         successful_analyses |->
             Cardinality({k \in DOMAIN results : results[k].status = "success"}),
         failed_analyses |->
             Cardinality({k \in DOMAIN results : results[k].status # "success"})]

\* AnalysisService.get_monthly_yoy_results is called
GetMonthlyYoYResults ==
    /\ pc = "runs"
    /\ IsNone(result)
    /\ result' = monthly_results("get_monthly_yoy_results", yoy_analysis,
                                 "previous_year_mentions")
    /\ UNCHANGED <<pc, current_value, previous_value, rankVars, monthVars,
                   heatVars, storeVars, batchVars>>

\* AnalysisService.get_monthly_mom_results is called
GetMonthlyMoMResults ==
    /\ pc = "runs"
    /\ IsNone(result)
    /\ result' = monthly_results("get_monthly_mom_results", mom_analysis,
                                 "previous_month_mentions")
    /\ UNCHANGED <<pc, current_value, previous_value, rankVars, monthVars,
                   heatVars, storeVars, batchVars>>

\* a MonthlyMoMAnalysis row of the analysed month; the table is filled from
\* outside, and the change of a row may be null
mom_row(company_id, monthly_change_percentage, status) ==
    [company_id |-> company_id,
     analysis_month |-> AnalysisMonth,
     current_month_mentions |-> 10,
     previous_month_mentions |-> 10,
     monthly_change_percentage |-> monthly_change_percentage,
     status |-> status]

\* the MonthlyMoMAnalysis tables at the start
MoMTables ==
    <<  <<>>,
        <<mom_row(1, -500, "success"), mom_row(2, 500, "success")>>,
        <<mom_row(1, -500, "success"), mom_row(2, None, "failed")>>  >>

-----------------------------------------------------------------------------
(* SpecAnalysis: one run of one of the three analyses over the companies,  *)
(* any of its lookups and commits raising or not.                          *)

\* the analysis rows at the start: none, or one of an earlier month's data
\* for company 1
StaleAnalysis == {<<>>, <<yoy_row(1, 7, 7, 0)>>}

InitAnalysis ==
    /\ pc = "runs"
    /\ monthly_mentions \in
           {MentionTable(profile, MaxCompanies) :
               profile \in [Companies -> MentionProfiles]}
    /\ yoy_analysis \in StaleAnalysis
    /\ \E t \in DOMAIN MoMTables : mom_analysis = MoMTables[t]
    /\ runs = [r \in RunIds |-> IdleRun]
    /\ result = None /\ current_value = 0 /\ previous_value = 0
    /\ IdleRank /\ IdleMonth /\ IdleHeat
    /\ IdleBatch

NextAnalysis ==
    \/ StartYoY(1) \/ StartMoM(1) \/ StartRealData(1) \/ StartFallback(1)
    \/ CompanyYoYLookup(1) \/ CompanyYoYSave(1)
    \/ LookupRaises(1) \/ CommitRaises(1) \/ ReturnRaises(1)
    \/ HandlerRaises(1)
    \/ CompanyMoMLookup(1) \/ CompanyMoMReturn(1)
    \/ RealDataLookup(1) \/ RealDataAppend(1) \/ RealDataRaises(1)
    \/ FallbackCompany(1) \/ FallbackRaises(1)
    \/ Return(1)
    \/ GetMonthlyYoYResults \/ GetMonthlyMoMResults

SpecAnalysis == InitAnalysis /\ [][NextAnalysis]_vars

\* the runs of the two analyses that catch the faults of a company
CatchingRuns == {r \in RunIds : runs[r].kind \in {"yoy", "mom"}}

\* C14: from calculate_monthly_yoy_analysis and calculate_monthly_mom_analysis
\* no exception escapes, whichever companies' lookups raise; the returned
\* result set has exactly one entry per company, "failed" for the companies
\* whose lookup raised and "success" for all others; the failed count is the
\* number of those companies and successful + failed = total = entries.
C14_PartialFailure ==
    \A r \in CatchingRuns :
        /\ runs[r].pc # "raised"
        /\ runs[r].pc = "done" =>
               /\ Len(runs[r].results) = MaxCompanies
               /\ \A k \in Companies :
                      /\ runs[r].results[k].company_id = k
                      /\ runs[r].results[k].status =
                             IF k \in runs[r].faulted THEN "failed" ELSE "success"
               /\ runs[r].failed_count = Cardinality(runs[r].faulted)
               /\ runs[r].successful_count + runs[r].failed_count = MaxCompanies

\* no MonthlyMention row that the analysis of run r reads exists for the
\* company, neither for the analysed month nor for the month it is
\* compared with
NoRecord(r, company_id) ==
    LET sources == IF runs[r].kind = "yoy" THEN AllSources ELSE {"newsapi"}
        compared == IF runs[r].kind = "yoy" THEN YoYMonth ELSE MoMMonth
    IN  /\ first_mention(monthly_mentions, company_id, AnalysisMonth, sources) = 0
        /\ first_mention(monthly_mentions, company_id, compared, sources) = 0

\* C16: every per-entity result of an analyzer has status "failed" exactly
\* when the lookup of the entity raised, "no_data" exactly when it did not
\* and no mention record exists for the target or for the comparison period
\* (both counts are then 0), and "success" otherwise: a stored record with
\* count 0 gives "success", no record at all never does.
C16_Status ==
    \A r \in {q \in RunIds : runs[q].kind # "fallback"} :
        \A k \in 1 .. Len(runs[r].results) :
            LET entry == runs[r].results[k]
            IN  entry.status =
                    IF entry.company_id \in runs[r].faulted THEN "failed"
                    ELSE IF NoRecord(r, entry.company_id) THEN "no_data"
                    ELSE "success"

\* the change percentages cs are in descending order, the nulls after every
\* number
NullsLastDescending(cs) ==
    \A i, j \in DOMAIN cs :
        i < j =>
            /\ IsNone(cs[i]) => IsNone(cs[j])
            /\ (~IsNone(cs[i]) /\ ~IsNone(cs[j])) => cs[i] >= cs[j]

\* the change percentages of the entries of a finished run, null for a
\* "failed" entry
RunChanges(r) ==
    [k \in DOMAIN runs[r].results |->
        IF runs[r].results[k].status = "failed" THEN None
        ELSE IF runs[r].kind = "realdata"
        THEN runs[r].results[k].change_percentage
        ELSE runs[r].results[k].monthly_change_percentage]

\* C17: the result list of calculate_monthly_yoy_analysis,
\* get_newsapi_mom_analysis, get_monthly_yoy_results and
\* get_monthly_mom_results is in descending order of change percentage, and
\* every entry with a null change percentage comes after every entry with a
\* number, negative numbers included.
C17_SortedNullsLast ==
    /\ \A r \in RunIds :
           (runs[r].pc = "done" /\ runs[r].kind \in {"yoy", "realdata"}) =>
               NullsLastDescending(RunChanges(r))
    /\ ~IsNone(result) =>
           NullsLastDescending(
               [k \in DOMAIN result.results |->
                   result.results[k].monthly_change_percentage])

-----------------------------------------------------------------------------
(* SpecOverlap: two runs of calculate_monthly_yoy_analysis for the same    *)
(* month, each in a session of its own (the scheduled job and a background *)
(* task, or two background tasks), one after the other or interleaved at   *)
(* the storage accesses of their companies.  No lookup raises.             *)

InitOverlap ==
    /\ pc = "runs"
    /\ monthly_mentions \in
           {MentionTable(profile, MaxCompanies) :
               profile \in [Companies -> MentionProfiles]}
    /\ yoy_analysis \in StaleAnalysis
    /\ mom_analysis = <<>>
    /\ runs = [r \in RunIds |-> IdleRun]
    /\ result = None /\ current_value = 0 /\ previous_value = 0
    /\ IdleRank /\ IdleMonth /\ IdleHeat
    /\ IdleBatch

NextOverlap ==
    \E r \in RunIds :
        \/ StartYoY(r)
        \/ CompanyYoYLookup(r)
        \/ CompanyYoYSave(r)
        \/ Return(r)

SpecOverlap == InitOverlap /\ [][NextOverlap]_vars

\* the analysis table holds at most one row per (company, month)
OneRowPerPeriod ==
    \A a, b \in DOMAIN yoy_analysis :
        (/\ yoy_analysis[a].company_id = yoy_analysis[b].company_id
         /\ yoy_analysis[a].analysis_month = yoy_analysis[b].analysis_month)
            => a = b

\* both runs have returned and neither was active during the other
TwoRunsInSequence ==
    \A r \in RunIds : runs[r].pc = "done" /\ ~runs[r].overlapped

\* C15: calculate_monthly_yoy_analysis run twice, one run after the other,
\* over unchanged mention data returns the same result set both times, and
\* afterwards the analysis table holds exactly one row per (company,
\* analysed month), with the values it had when the first run returned.
C15_Idempotent ==
    TwoRunsInSequence =>
        /\ ToString(runs[1].results) = ToString(runs[2].results)
        /\ OneRowPerPeriod
        /\ \A c \in Companies : first_analysis(yoy_analysis, c, AnalysisMonth) # 0
        /\ runs[1].rows_at_return = yoy_analysis
        /\ runs[2].rows_at_return = yoy_analysis

\* C15 witness: two runs in sequence have returned, and the table holds the
\* rows of all the companies
C15_Witness ==
    /\ TwoRunsInSequence
    /\ Len(runs[2].results) = MaxCompanies
    /\ Len(yoy_analysis) = MaxCompanies

\* C19: however the per-company steps (look up the existing row; insert or
\* update and commit) of two overlapping runs for the same month interleave,
\* the analysis table holds at most one row per (company, month).
C19_OverlapOneRow == OneRowPerPeriod

-----------------------------------------------------------------------------
(* SpecCollect: collection runs executed one after another on one          *)
(* MonthlyMention table: DataCollectionService.collect_monthly_data,       *)
(* NewsAPIDataCollectionService.collect_monthly_data (both for             *)
(* AnalysisMonth) and generate_newsapi_data_for_companies.                 *)

MaxRuns == 3


\* target_months of generate_newsapi_data_for_companies
target_months == <<MonthText(2025, 7), MonthText(2025, 8), MonthText(2025, 9)>>

\* MonthlyMention(company_id, year_month, mention_count, data_source)
MonthlyMention(company_id, year_month, mention_count, data_source) ==
    [company_id |-> company_id,
     year_month |-> year_month,
     mention_count |-> mention_count,
     data_source |-> data_source]

\* the new row is always added, the existing one never looked up
newsapi_collected_insert(mentions, company_id, year_month, mention_count) ==
    Append(mentions, MonthlyMention(company_id, year_month, mention_count, "newsapi"))

\* the try block of DataCollectionService.collect_monthly_data for one
\* company: the existing row is looked up by company and month only
gdelt_collected(mentions, company_id, year_month, mention_count) ==
    LET existing == first_mention(mentions, company_id, year_month, AllSources)
    IN  IF existing # 0
        THEN [mentions EXCEPT ![existing].mention_count = mention_count,
                              ![existing].data_source = "gdelt_doc"]
        ELSE Append(mentions,
                    MonthlyMention(company_id, year_month, mention_count, "gdelt_doc"))

\* the try block of NewsAPIDataCollectionService.collect_monthly_data for one
\* company: the existing row is looked up by company, month and "newsapi"
newsapi_collected(mentions, company_id, year_month, mention_count) ==
    LET existing == first_mention(mentions, company_id, year_month, {"newsapi"})
    IN  IF existing # 0
        THEN [mentions EXCEPT ![existing].mention_count = mention_count]
        ELSE Append(mentions,
                    MonthlyMention(company_id, year_month, mention_count, "newsapi"))

RECURSIVE flushed(_, _)
\* the commit of generate_newsapi_data_for_companies: the assignments to
\* existing rows, <<id, mention_count>> each, reach the table
flushed(mentions, dirty) ==
    IF dirty = <<>> THEN mentions
    ELSE flushed([mentions EXCEPT ![Head(dirty)[1]].mention_count = Head(dirty)[2]],
                 Tail(dirty))

\* the collection run: kind, the company i and the month m it is at, the
\* rows its session has added (new) and assigned to (dirty) but not
\* committed; count (the runs started so far) and taken_over (a GDELT run
\* has made a "newsapi" row its own) only record what happened
IdleCollect ==
    [kind |-> "None", pc |-> "idle", i |-> 0, m |-> 0,
     new |-> <<>>, dirty |-> <<>>, count |-> 0, taken_over |-> FALSE]

\* the mention_count a source delivers to a run: 0 (also the default when
\* the source failed) to the first run, another count to every later one
CollectedCounts(run) == {10 * (run.count - 1)}

InitCollect ==
    /\ pc = "collect"
    /\ monthly_mentions = <<>>
    /\ yoy_analysis = <<>>
    /\ mom_analysis = <<>>
    /\ runs = IdleCollect
    /\ IdleChange /\ IdleRank /\ IdleMonth /\ IdleHeat
    /\ IdleBatch

\* a collection run is called when the one before has ended
StartCollect(kind) ==
    /\ pc = "collect"
    /\ runs.pc = "idle"
    /\ runs.count < MaxRuns
    /\ runs' = [runs EXCEPT !.kind = kind, !.pc = "company", !.i = 1, !.m = 1,
                            !.new = <<>>, !.dirty = <<>>, !.count = @ + 1]
    /\ UNCHANGED <<pc, changeVars, rankVars, monthVars, heatVars, batchVars,
                   monthly_mentions, yoy_analysis, mom_analysis>>

\* DataCollectionService.collect_monthly_data is called
StartGDELTCollect == StartCollect("gdelt_doc")

\* NewsAPIDataCollectionService.collect_monthly_data is called
StartNewsAPICollect == StartCollect("newsapi")

\* NewsAPIRealDataService.generate_newsapi_data_for_companies is called
StartGenerate == StartCollect("generate")

\* one company of the loop of DataCollectionService.collect_monthly_data:
\* look up, assign or add, commit
GDELTCollectCompany ==
    /\ pc = "collect"
    /\ runs.kind = "gdelt_doc" /\ runs.pc = "company" /\ runs.i <= MaxCompanies
    /\ \E mention_count \in CollectedCounts(runs) :
          monthly_mentions' =
              gdelt_collected(monthly_mentions, runs.i, AnalysisMonth, mention_count)
    /\ runs' = [runs EXCEPT
           !.i = @ + 1,
           !.taken_over =
               \/ @
               \/ LET existing == first_mention(monthly_mentions, runs.i,
                                                AnalysisMonth, AllSources)
                  IN  existing # 0
                      /\ monthly_mentions[existing].data_source = "newsapi"]
    /\ UNCHANGED <<pc, changeVars, rankVars, monthVars, heatVars, batchVars,
                   yoy_analysis, mom_analysis>>

\* one company of the loop of NewsAPIDataCollectionService.collect_monthly_data
NewsAPICollectCompany ==
    /\ pc = "collect"
    /\ runs.kind = "newsapi" /\ runs.pc = "company" /\ runs.i <= MaxCompanies
    /\ \E mention_count \in CollectedCounts(runs) :
          monthly_mentions' =
              newsapi_collected(monthly_mentions, runs.i, AnalysisMonth, mention_count)
    /\ runs' = [runs EXCEPT !.i = @ + 1]
    /\ UNCHANGED <<pc, changeVars, rankVars, monthVars, heatVars, batchVars,
                   yoy_analysis, mom_analysis>>

\* the try block of a company raises (the lookup or the commit fails):
\* the except clause appends a "failed" entry and nothing is stored
CollectCompanyRaises ==
    /\ pc = "collect"
    /\ runs.kind \in AllSources /\ runs.pc = "company" /\ runs.i <= MaxCompanies
    /\ runs' = [runs EXCEPT !.i = @ + 1]
    /\ UNCHANGED <<pc, changeVars, rankVars, monthVars, heatVars, batchVars,
                   monthly_mentions, yoy_analysis, mom_analysis>>

\* collect_monthly_data has gone through its companies and returns
CollectReturn ==
    /\ pc = "collect"
    /\ runs.kind \in AllSources /\ runs.pc = "company" /\ runs.i > MaxCompanies
    /\ runs' = [runs EXCEPT !.pc = "idle"]
    /\ UNCHANGED <<pc, changeVars, rankVars, monthVars, heatVars, batchVars,
                   monthly_mentions, yoy_analysis, mom_analysis>>

\* the run is at the next month of its company, or at the next company
next_month(run) ==
    IF run.m = Len(target_months)
    THEN [run EXCEPT !.i = @ + 1, !.m = 1]
    ELSE [run EXCEPT !.m = @ + 1]

\* one month of one company of generate_newsapi_data_for_companies: the
\* existing row is queried from the table (the session does not autoflush),
\* assigned to or a new row added to the session
GenerateMonth ==
    /\ pc = "collect"
    /\ runs.kind = "generate" /\ runs.pc = "company" /\ runs.i <= MaxCompanies
    /\ \E mention_count \in CollectedCounts(runs) :
          LET year_month == target_months[runs.m]
              existing == first_mention(monthly_mentions, runs.i, year_month,
                                        {"newsapi"})
          IN  runs' = next_month(
                  IF existing # 0
                  THEN [runs EXCEPT !.dirty = Append(@, <<existing, mention_count>>)]
                  ELSE [runs EXCEPT !.new = Append(@,
                            MonthlyMention(runs.i, year_month, mention_count,
                                           "newsapi"))])
    /\ UNCHANGED <<pc, changeVars, rankVars, monthVars, heatVars, batchVars,
                   monthly_mentions, yoy_analysis, mom_analysis>>

\* the month delivers no success, or its try block raises
GenerateMonthSkipped ==
    /\ pc = "collect"
    /\ runs.kind = "generate" /\ runs.pc = "company" /\ runs.i <= MaxCompanies
    /\ runs' = next_month(runs)
    /\ UNCHANGED <<pc, changeVars, rankVars, monthVars, heatVars, batchVars,
                   monthly_mentions, yoy_analysis, mom_analysis>>

\* the one commit of generate_newsapi_data_for_companies, after the loop
GenerateCommit ==
    /\ pc = "collect"
    /\ runs.kind = "generate" /\ runs.pc = "company" /\ runs.i > MaxCompanies
    /\ monthly_mentions' = flushed(monthly_mentions, runs.dirty) \o runs.new
    /\ runs' = [runs EXCEPT !.pc = "idle", !.new = <<>>, !.dirty = <<>>]
    /\ UNCHANGED <<pc, changeVars, rankVars, monthVars, heatVars, batchVars,
                   yoy_analysis, mom_analysis>>

\* that commit raises: nothing of the run is stored
GenerateCommitRaises ==
    /\ pc = "collect"
    /\ runs.kind = "generate" /\ runs.pc = "company" /\ runs.i > MaxCompanies
    /\ runs' = [runs EXCEPT !.pc = "idle", !.new = <<>>, !.dirty = <<>>]
    /\ UNCHANGED <<pc, changeVars, rankVars, monthVars, heatVars, batchVars,
                   monthly_mentions, yoy_analysis, mom_analysis>>

NextCollect ==
    \/ StartGDELTCollect
    \/ StartNewsAPICollect
    \/ StartGenerate
    \/ GDELTCollectCompany
    \/ NewsAPICollectCompany
    \/ CollectCompanyRaises
    \/ CollectReturn
    \/ GenerateMonth
    \/ GenerateMonthSkipped
    \/ GenerateCommit
    \/ GenerateCommitRaises

SpecCollect == InitCollect /\ [][NextCollect]_vars

-----------------------------------------------------------------------------
(* Claims about the mention counts the analyzers read.                     *)

\* the mention_count of the company's row of the source for the month, 0
\* when it has no row of that source
SourceCount(company_id, year_month, source) ==
    count_of(monthly_mentions,
             first_mention(monthly_mentions, company_id, year_month, {source}))

\* C21: the current and previous counts an analyzer uses for a company are
\* the mention counts of the company's rows of the analyzer's source
\* ("gdelt_doc" for the year-over-year analysis, "newsapi" for the
\* month-over-month one) for the analysed and the compared month, 0 where
\* there is no row of that source; a row of the other source changes nothing.
C21_RequestedSource ==
    \A r \in CatchingRuns :
        \A k \in 1 .. Len(runs[r].results) :
            LET entry == runs[r].results[k]
            IN  entry.status = "success" =>
                    IF runs[r].kind = "yoy"
                    THEN /\ entry.current_month_mentions =
                                SourceCount(entry.company_id, AnalysisMonth, "gdelt_doc")
                         /\ entry.previous_year_mentions =
                                SourceCount(entry.company_id, YoYMonth, "gdelt_doc")
                    ELSE /\ entry.current_month_mentions =
                                SourceCount(entry.company_id, AnalysisMonth, "newsapi")
                         /\ entry.previous_month_mentions =
                                SourceCount(entry.company_id, MoMMonth, "newsapi")

-----------------------------------------------------------------------------
(* Claims about what a collection run leaves alone.                        *)

\* C22: a step of a GDELT collection run (DataCollectionService
\* .collect_monthly_data) creates or updates only the company's GDELT row of
\* the month: every "newsapi" row keeps its data_source and its
\* mention_count.
C22_GDELTKeepsNewsAPI ==
    [][(runs.kind = "gdelt_doc" /\ runs.pc = "company") =>
          \A k \in DOMAIN monthly_mentions :
              monthly_mentions[k].data_source = "newsapi" =>
                  /\ monthly_mentions'[k].data_source = "newsapi"
                  /\ monthly_mentions'[k].mention_count =
                         monthly_mentions[k].mention_count]_vars

-----------------------------------------------------------------------------
(* Claims about the change percentage of a per-company result.             *)

\* C23: when the current and the previous count of a company are equal (both
\* 0 included), the result of calculate_monthly_yoy_analysis and of
\* calculate_monthly_mom_analysis reports the change percentage 0.0, not
\* null, with the formatted string "0.0%"; the change percentage field of a
\* successful result always equals the value _calculate_percentage_change
\* computed for the same counts.
C23_EqualCountsZero ==
    (ServiceChanged /\ current_value >= 0 /\ previous_value >= 0) =>
        /\ ~IsNone(result.monthly_change_percentage)
        /\ result.monthly_change_percentage = result.change_percentage
        /\ current_value = previous_value =>
               /\ result.monthly_change_percentage = 0
               /\ result.formatted_change = <<"0", ".", "0", "%">>

-----------------------------------------------------------------------------
(* Claims about the loops that feed the combined ranking.                  *)

\* C24: in get_newsapi_mom_analysis and get_gdelt_ranking_data_fallback a
\* lookup fault for one company does not abort the batch: the run returns,
\* its result set has one entry per company, the entry of a company whose
\* lookup raised has status "failed", and every other company has its own
\* result.
C24_RankingFeedPartialFailure ==
    \A r \in {q \in RunIds : runs[q].kind \in {"realdata", "fallback"}} :
        /\ runs[r].pc # "raised"
        /\ runs[r].pc = "done" =>
               \A c \in Companies :
                   \E k \in DOMAIN runs[r].results :
                       /\ runs[r].results[k].company_id = c
                       /\ c \in runs[r].faulted =>
                              /\ "status" \in DOMAIN runs[r].results[k]
                              /\ runs[r].results[k].status = "failed"


\* C25: with previous > 0, the change percentage an entry of
\* get_newsapi_mom_analysis reports is the value
\* AnalysisService._calculate_percentage_change returns for the same counts,
\* (current - previous) / previous * 100 rounded half-up to one decimal
\* (previous 400 and current 401 give 0.3).
C25_RealDataRoundsHalfUp ==
    (/\ pc = "changed"
     /\ result.analyzer = "NewsAPIRealDataService"
     /\ current_value >= 0
     /\ previous_value > 0) =>
        result.change_percentage =
            _calculate_percentage_change(current_value, previous_value)

-----------------------------------------------------------------------------
(* SpecBatch: one call of a provider adapter's batch query,                *)
(* GDELTAPIService.batch_query_heat_index, .batch_query_companies or        *)
(* NewsAPIService.batch_query_companies, on the event loop: the requests   *)
(* of a batch are tasks that start and end in any order.                   *)

MaxNames == 6

\* batch_size of the two GDELT batch queries, and of the NewsAPI one
gdelt_batch_size == 5
newsapi_batch_size == 3

Services == {"gdelt_heat", "gdelt", "newsapi"}

batch_size_of(service) ==
    IF service = "newsapi" THEN newsapi_batch_size ELSE gdelt_batch_size

\* the count (the TimelineVol value, for the heat index) of a request that
\* succeeds
ProviderValues == {7}

\* what a query coroutine returns when the provider answered
success_response(value) == [success |-> TRUE, value |-> value, error |-> None]

\* _create_error_response and _create_heat_error_response: success False
\* and the count (the value) 0
_create_error_response(error_message) ==
    [success |-> FALSE, value |-> 0, error |-> error_message]

\* the tasks of a call are "waiting" (their batch has not been reached),
\* "created" (asyncio.gather has scheduled them), "in_flight" (the request
\* is with the provider), "returned" (the coroutine returned a response),
\* "raised" (it ended with an exception) or "cancelled"
Finished == {"returned", "raised"}

\* company_names of n names, the last a repetition of the first if repeated
CompanyNameList(n, repeated) ==
    [k \in 1 .. n |-> IF repeated /\ k = n /\ n > 1 THEN 1 ELSE k]

\* the call: i is the index of the for loop (0-based, as in range), tasks
\* and responses are per position of company_names, results is the dict
\* as a function of the names it has; slept counts the sleeps that ended
NewBatch(service, company_names) ==
    [service |-> service,
     company_names |-> company_names,
     batch_size |-> batch_size_of(service),
     pc |-> "for",
     i |-> 0,
     tasks |-> [k \in DOMAIN company_names |-> "waiting"],
     responses |-> [k \in DOMAIN company_names |-> _create_error_response(None)],
     results |-> <<>>,
     slept |-> 0,
     exception |-> None]

InitBatch ==
    /\ pc = "batch"
    /\ \E service \in Services, n \in 0 .. MaxNames, repeated \in BOOLEAN :
          batch = NewBatch(service, CompanyNameList(n, repeated))
    /\ heat_indices = <<>>
    /\ IdleChange /\ IdleRank /\ IdleMonth /\ IdleHeat /\ IdleStore

\* every position from i on: the whole rest of the list as one batch
BatchOfRest(b) ==
    {k \in DOMAIN b.company_names : b.i < k}

\* the positions of company_names[i : i + batch_size]
BatchOf(b) ==
    {k \in DOMAIN b.company_names : b.i < k /\ k <= b.i + b.batch_size}

\* the for loop takes the next batch and asyncio.gather schedules its tasks
Gather ==
    /\ pc = "batch"
    /\ batch.pc = "for" /\ batch.i < Len(batch.company_names)
    /\ batch' = [batch EXCEPT
           !.pc = "gather",
           !.tasks = [k \in DOMAIN @ |->
                         IF k \in BatchOf(batch) THEN "created" ELSE @[k]]]
    /\ UNCHANGED <<pc, changeVars, rankVars, monthVars, heatVars, storeVars,
                   heat_indices>>

\* a task of the batch runs up to its request: client.get is awaited
RequestStarts ==
    /\ pc = "batch"
    /\ batch.pc = "gather"
    /\ \E k \in DOMAIN batch.tasks :
          /\ batch.tasks[k] = "created"
          /\ batch' = [batch EXCEPT !.tasks[k] = "in_flight"]
    /\ UNCHANGED <<pc, changeVars, rankVars, monthVars, heatVars, storeVars,
                   heat_indices>>

\* a request ends and its task ends with response
Ended(k, state, response) ==
    /\ pc = "batch"
    /\ batch.pc = "gather"
    /\ batch.tasks[k] = "in_flight"
    /\ batch' = [batch EXCEPT !.tasks[k] = state, !.responses[k] = response]
    /\ UNCHANGED <<pc, changeVars, rankVars, monthVars, heatVars, storeVars,
                   heat_indices>>

\* the provider answers and the coroutine returns the processed response
RequestSucceeds ==
    \E k \in DOMAIN batch.tasks, value \in ProviderValues :
        Ended(k, "returned", success_response(value))

\* the request times out, gets an HTTP error or raises: the coroutine's
\* except clauses return an error response
RequestFails ==
    \E k \in DOMAIN batch.tasks :
        Ended(k, "returned", _create_error_response("API"))

\* an exception leaves the coroutine: gather returns it as the task's result
RequestRaises ==
    \E k \in DOMAIN batch.tasks :
        Ended(k, "raised", _create_error_response("Exception"))

RECURSIVE results_after(_, _, _, _)
\* the loop over zip(batch, batch_results) from position k to position last
results_after(results, b, k, last) ==
    IF k > last THEN results
    ELSE LET name == b.company_names[k]
             entry == IF b.tasks[k] = "raised"
                      THEN _create_error_response("Exception")
                      ELSE b.responses[k]
         IN  results_after(
                 [n \in DOMAIN results \cup {name} |->
                     IF n = name THEN entry ELSE results[n]],
                 b, k + 1, last)

\* every task of the batch has ended: gather returns, the results of the
\* batch are put into the dict and asyncio.sleep is awaited
GatherReturns ==
    /\ pc = "batch"
    /\ batch.pc = "gather"
    /\ \A k \in BatchOf(batch) : batch.tasks[k] \in Finished
    /\ LET last == IF batch.i + batch.batch_size > Len(batch.company_names)
                   THEN Len(batch.company_names)
                   ELSE batch.i + batch.batch_size
       IN  batch' = [batch EXCEPT
               !.results = results_after(@, batch, batch.i + 1, last),
               !.pc = "sleep"]
    /\ UNCHANGED <<pc, changeVars, rankVars, monthVars, heatVars, storeVars,
                   heat_indices>>

\* the delay between the batches has passed
SleepReturns ==
    /\ pc = "batch"
    /\ batch.pc = "sleep"
    /\ batch' = [batch EXCEPT !.pc = "for", !.i = @ + batch.batch_size,
                              !.slept = @ + 1]
    /\ UNCHANGED <<pc, changeVars, rankVars, monthVars, heatVars, storeVars,
                   heat_indices>>

\* the for loop is over: return results
BatchReturns ==
    /\ pc = "batch"
    /\ batch.pc = "for" /\ batch.i >= Len(batch.company_names)
    /\ batch' = [batch EXCEPT !.pc = "returned"]
    /\ UNCHANGED <<pc, changeVars, rankVars, monthVars, heatVars, storeVars,
                   heat_indices>>

\* the task that runs the call is cancelled while it awaits gather or
\* sleep: gather cancels the tasks that have not ended, and CancelledError,
\* which no clause of the call or of its callers catches, leaves the call
BatchCancelled ==
    /\ pc = "batch"
    /\ batch.pc \in {"gather", "sleep"}
    /\ batch' = [batch EXCEPT
           !.pc = "raised",
           !.exception = "CancelledError",
           !.tasks = [k \in DOMAIN @ |->
                         IF @[k] \in {"created", "in_flight"} THEN "cancelled"
                         ELSE @[k]]]
    /\ UNCHANGED <<pc, changeVars, rankVars, monthVars, heatVars, storeVars,
                   heat_indices>>

NextBatch ==
    \/ Gather
    \/ RequestStarts
    \/ RequestSucceeds
    \/ RequestFails
    \/ RequestRaises
    \/ GatherReturns
    \/ SleepReturns
    \/ BatchReturns
    \/ BatchCancelled

SpecBatch == InitBatch /\ [][NextBatch]_vars


\* the requests that are with the provider
InFlight == {k \in DOMAIN batch.tasks : batch.tasks[k] = "in_flight"}

\* the request at position k has been sent
Started(k) == batch.tasks[k] \in {"in_flight", "returned", "raised"}

\* the number of the batch (0 for the first) that position k belongs to
BatchNumber(k) == (k - 1) \div batch.batch_size

\* the positions at which company_names has the name
PositionsOf(name) ==
    {k \in DOMAIN batch.company_names : batch.company_names[k] = name}

\* C26: during a batch query the number of provider requests in flight
\* never exceeds the batch size (5 for GDELT, 3 for NewsAPI, both within
\* 3..8); no request of a batch starts before every request of the batches
\* before it has ended and the delay after each of them has passed; and when
\* the call returns there is exactly one result entry for every requested
\* name, an error entry with value 0 where the request raised (of a name
\* that is requested twice the entry is that of its last request).
C26_BoundedBatches ==
    pc = "batch" =>
        /\ batch.batch_size = IF batch.service = "newsapi" THEN 3 ELSE 5
        /\ batch.batch_size \in 3 .. 8
        /\ Cardinality(InFlight) <= batch.batch_size
        /\ \A k \in DOMAIN batch.tasks :
               Started(k) =>
                   /\ batch.slept >= BatchNumber(k)
                   /\ \A j \in DOMAIN batch.tasks :
                          BatchNumber(j) < BatchNumber(k) =>
                              batch.tasks[j] \in Finished
        /\ batch.pc = "returned" =>
               /\ DOMAIN batch.results =
                      {batch.company_names[k] : k \in DOMAIN batch.company_names}
               /\ \A name \in DOMAIN batch.results :
                      LET last == CHOOSE k \in PositionsOf(name) :
                                      \A j \in PositionsOf(name) : j <= k
                      IN  IF batch.tasks[last] = "raised"
                          THEN /\ ~batch.results[name].success
                               /\ batch.results[name].value = 0
                          ELSE batch.results[name] = batch.responses[last]

\* C26 witness: the three requests of the second NewsAPI batch are all in
\* flight, after the first batch has ended with a request that raised, whose
\* name has an error entry, and after one delay
C26_Witness ==
    /\ pc = "batch"
    /\ batch.service = "newsapi"
    /\ batch.slept = 1
    /\ InFlight = {4, 5, 6}
    /\ batch.tasks[2] = "raised"
    /\ ~batch.results[2].success
    /\ batch.results[2].value = 0


\* C28: when the whole batch is cancelled while requests are outstanding,
\* the outstanding requests are aborted and the call returns the partial
\* result set, the entries of the requests that had ended; the cancellation
\* never leaves the call as an exception.
C28_CancelReturnsPartial ==
    pc = "batch" =>
        /\ batch.pc # "raised"
        /\ (\E k \in DOMAIN batch.tasks : batch.tasks[k] = "cancelled") =>
               /\ batch.pc = "returned"
               /\ DOMAIN batch.results =
                      {batch.company_names[k] :
                          k \in {j \in DOMAIN batch.tasks :
                                    batch.tasks[j] \in Finished}}


-----------------------------------------------------------------------------
(* Claims about the shape of the combined ranking.                         *)

\* the names of a result set are pairwise different
UniqueNames(data) ==
    \A i, j \in DOMAIN data : data[i].company_name = data[j].company_name => i = j

\* C29: for result sets whose names are unique within each source, the
\* combined ranking has exactly one entry per distinct name of the union of
\* the two sources, is ordered by combined_rank_score ascending, its
\* final_rank values are non-decreasing along the list, the first entry has
\* final_rank 1 and every final_rank lies in 1 .. N, N the number of entries.
C29_OneEntryPerNameOrdered ==
    (pc = "ranked" /\ UniqueNames(gdelt_data) /\ UniqueNames(newsapi_data)) =>
        LET ranking == comprehensive_ranking
            N == Len(ranking)
        IN  /\ CompanyNames(ranking) =
                   CompanyNames(gdelt_data) \cup CompanyNames(newsapi_data)
            /\ UniqueNames(ranking)
            /\ \A k \in 1 .. (N - 1) :
                   /\ ranking[k].combined_rank_score
                          <= ranking[k + 1].combined_rank_score
                   /\ ranking[k].final_rank <= ranking[k + 1].final_rank
            /\ N > 0 => ranking[1].final_rank = 1
            /\ \A k \in 1 .. N : ranking[k].final_rank \in 1 .. N

\* C29: two names in one source, one of them also in the other source: two
\* entries, of different scores, ranked 1 and 2
C29_Witness ==
    /\ pc = "ranked"
    /\ UniqueNames(gdelt_data) /\ UniqueNames(newsapi_data)
    /\ Len(gdelt_data) = 2 /\ Len(newsapi_data) = 1
    /\ CompanyNames(newsapi_data) \subseteq CompanyNames(gdelt_data)
    /\ Len(comprehensive_ranking) = 2
    /\ comprehensive_ranking[1].final_rank = 1
    /\ comprehensive_ranking[2].final_rank = 2
    /\ comprehensive_ranking[1].combined_rank_score
           < comprehensive_ranking[2].combined_rank_score


-----------------------------------------------------------------------------
(* SpecUpsert: runs of DataCollectionService.collect_monthly_data, or runs  *)
(* of HeatIndexService.calculate_monthly_heat_index, executed one after    *)
(* another, each for one month and for all the companies or for the        *)
(* company_ids it is given. The two services write different tables, so    *)
(* a behaviour holds the runs of one of them.                              *)

\* the runs of a behaviour
MaxUpsertRuns == 2

\* the months the runs are called for
UpsertMonths == {MonthText(2025, 8), AnalysisMonth}

\* the company_ids argument: {} stands for None; 0 is the id of no company
CompanyIdFilters == {{}} \cup {{c} : c \in Companies} \cup {{0}}

\* the MonthlyMention rows at the start: none, or a row of company 1 that a
\* NewsAPI collection run has stored
StoredBefore == {<<>>, <<MonthlyMention(1, AnalysisMonth, 20, "newsapi")>>}

\* HeatIndex(company_id, year_month, heat_index, ...); heat indices in hundredths
HeatIndex(company_id, year_month, timelinevol_value) ==
    [company_id |-> company_id,
     year_month |-> year_month,
     heat_index |-> timelinevol_value,
     avg_volume_percent |-> timelinevol_value,
     peak_volume_percent |-> 0,
     data_source |-> "gdelt_timelinevol"]

\* query(HeatIndex).filter(company_id, year_month).first(): the id of the
\* row, 0 for None
first_heat(rows, company_id, year_month) ==
    first({k \in DOMAIN rows :
              /\ rows[k].company_id = company_id
              /\ rows[k].year_month = year_month})

\* the new row is always added, the existing one never looked up
heat_saved_insert(rows, company_id, year_month, timelinevol_value) ==
    Append(rows, HeatIndex(company_id, year_month, timelinevol_value))

\* the try block of calculate_monthly_heat_index for one company
heat_saved(rows, company_id, year_month, timelinevol_value) ==
    LET existing == first_heat(rows, company_id, year_month)
    IN  IF existing # 0
        THEN [rows EXCEPT ![existing].heat_index = timelinevol_value,
                          ![existing].avg_volume_percent = timelinevol_value,
                          ![existing].peak_volume_percent = 0]
        ELSE Append(rows, HeatIndex(company_id, year_month, timelinevol_value))

\* an error response that keeps a value
_create_heat_error_response_stale(error_message) ==
    [success |-> FALSE, value |-> 1, error |-> error_message]

\* value is timelinevol_value
_create_heat_error_response(error_message) ==
    [success |-> FALSE, value |-> 0, error |-> error_message]

\* the companies query: the active companies, those of company_ids if given
companies_of(company_ids) ==
    LET ids == IF company_ids = {} THEN Companies ELSE company_ids \cap Companies
    IN  [k \in 1 .. Cardinality(ids) |->
            CHOOSE c \in ids : Cardinality({d \in ids : d < c}) = k - 1]

\* what the batch query holds for a company of the run: the value the
\* provider has in this run, or an error response
ResponsesOf(run) ==
    {success_response(100 * run.count),
     IF run.kind = "heat" THEN _create_heat_error_response("API")
     ELSE _create_error_response("API")}

\* the entry that is appended to results after the commit
saved_entry(company_id, action, value, heat_response) ==
    [company_id |-> company_id, action |-> action, value |-> value,
     success |-> heat_response.success]

\* the entry that the except clause appends
save_failed_entry(company_id) ==
    [company_id |-> company_id, action |-> "failed", success |-> FALSE]

\* the dict a run returns
run_response(results) ==
    [success |-> TRUE,
     total_companies |-> Len(results),
     successful_companies |->
         Cardinality({k \in DOMAIN results : results[k].success})]

\* the dict a run returns when it finds no company
no_companies_response ==
    [success |-> FALSE, total_companies |-> 0, successful_companies |-> 0]

\* the run: its kind ("heat" or "gdelt_doc"), its month, the companies it
\* goes through and the one (i) it is at, the provider's answer for the
\* company it handled last (heat_data), its results and the dict it returned;
\* count (the runs started so far), obtained (the value of the last entry
\* with a value, per company and month, -1 for none) and replaced (the value
\* the existing row had before the last assignment, -1 if there was no row)
\* only record what happened
IdleUpsert(kind) ==
    [kind |-> kind, pc |-> "idle", year_month |-> AnalysisMonth,
     companies |-> <<>>, i |-> 0, heat_data |-> success_response(0),
     results |-> <<>>, response |-> no_companies_response, count |-> 0,
     replaced |-> -1,
     obtained |-> [key \in Companies \X UpsertMonths |-> -1]]

InitUpsert ==
    /\ pc = "upsert"
    /\ \/ /\ runs = IdleUpsert("heat")
          /\ monthly_mentions = <<>>
       \/ /\ runs = IdleUpsert("gdelt_doc")
          /\ monthly_mentions \in StoredBefore
    /\ heat_indices = <<>>
    /\ batch = None
    /\ yoy_analysis = <<>>
    /\ mom_analysis = <<>>
    /\ IdleChange /\ IdleRank /\ IdleMonth /\ IdleHeat

\* a run is called when the one before has ended, and finds companies
StartRun(kind, year_month, company_ids) ==
    /\ pc = "upsert"
    /\ runs.kind = kind /\ runs.pc = "idle"
    /\ runs.count < MaxUpsertRuns
    /\ companies_of(company_ids) # <<>>
    /\ runs' = [runs EXCEPT !.pc = "company",
                            !.year_month = year_month,
                            !.companies = companies_of(company_ids),
                            !.i = 1, !.results = <<>>, !.count = @ + 1]
    /\ UNCHANGED <<pc, changeVars, rankVars, monthVars, heatVars, batchVars,
                   monthly_mentions, yoy_analysis, mom_analysis>>

\* HeatIndexService.calculate_monthly_heat_index is called
StartHeatRun ==
    \E year_month \in UpsertMonths, company_ids \in CompanyIdFilters :
        StartRun("heat", year_month, company_ids)

\* DataCollectionService.collect_monthly_data is called
StartMentionRun ==
    \E year_month \in UpsertMonths, company_ids \in CompanyIdFilters :
        StartRun("gdelt_doc", year_month, company_ids)

\* a run is called and finds no company: it returns at once
NoCompanies ==
    /\ pc = "upsert"
    /\ runs.pc = "idle"
    /\ runs.count < MaxUpsertRuns
    /\ \E company_ids \in CompanyIdFilters :
          /\ companies_of(company_ids) = <<>>
          /\ runs' = [runs EXCEPT !.companies = <<>>, !.i = 0,
                                  !.results = <<>>, !.count = @ + 1,
                                  !.response = no_companies_response]
    /\ UNCHANGED <<pc, changeVars, rankVars, monthVars, heatVars, batchVars,
                   monthly_mentions, yoy_analysis, mom_analysis>>

\* one company of the loop of calculate_monthly_heat_index: look up, assign
\* or add, commit, append the entry
HeatIndexCompany ==
    /\ pc = "upsert"
    /\ runs.kind = "heat" /\ runs.pc = "company" /\ runs.i <= Len(runs.companies)
    /\ \E heat_response \in ResponsesOf(runs) :
          LET company_id == runs.companies[runs.i]
              existing == first_heat(heat_indices, company_id, runs.year_month)
              timelinevol_value == heat_response.value
          IN  /\ heat_indices' = heat_saved(heat_indices, company_id,
                                            runs.year_month, timelinevol_value)
              /\ runs' = [runs EXCEPT
                     !.i = @ + 1,
                     !.heat_data = heat_response,
                     !.replaced = IF existing # 0
                                  THEN heat_indices[existing].heat_index ELSE -1,
                     !.results = Append(@,
                         saved_entry(company_id,
                                     IF existing # 0 THEN "updated" ELSE "created",
                                     timelinevol_value, heat_response)),
                     !.obtained[<<company_id, runs.year_month>>] = timelinevol_value]
    /\ batch' = batch
    /\ UNCHANGED <<pc, changeVars, rankVars, monthVars, heatVars,
                   monthly_mentions, yoy_analysis, mom_analysis>>

\* one company of the loop of DataCollectionService.collect_monthly_data
MentionCompany ==
    /\ pc = "upsert"
    /\ runs.kind = "gdelt_doc" /\ runs.pc = "company"
    /\ runs.i <= Len(runs.companies)
    /\ \E gdelt_response \in ResponsesOf(runs) :
          LET company_id == runs.companies[runs.i]
              existing == first_mention(monthly_mentions, company_id,
                                        runs.year_month, AllSources)
              mention_count == gdelt_response.value
          IN  /\ monthly_mentions' = gdelt_collected(monthly_mentions, company_id,
                                                     runs.year_month, mention_count)
              /\ runs' = [runs EXCEPT
                     !.i = @ + 1,
                     !.heat_data = gdelt_response,
                     !.replaced = IF existing # 0
                                  THEN monthly_mentions[existing].mention_count
                                  ELSE -1,
                     !.results = Append(@,
                         saved_entry(company_id,
                                     IF existing # 0 THEN "updated" ELSE "created",
                                     mention_count, gdelt_response))]
    /\ UNCHANGED <<pc, changeVars, rankVars, monthVars, heatVars, batchVars,
                   yoy_analysis, mom_analysis>>

\* the try block of a company raises (the lookup or the commit fails):
\* the except clause appends a "failed" entry and nothing is stored
SaveRaises ==
    /\ pc = "upsert"
    /\ runs.pc = "company" /\ runs.i <= Len(runs.companies)
    /\ runs' = [runs EXCEPT
           !.i = @ + 1,
           !.results = Append(@, save_failed_entry(runs.companies[runs.i]))]
    /\ UNCHANGED <<pc, changeVars, rankVars, monthVars, heatVars, batchVars,
                   monthly_mentions, yoy_analysis, mom_analysis>>

\* the run has gone through its companies and returns
RunReturns ==
    /\ pc = "upsert"
    /\ runs.pc = "company" /\ runs.i > Len(runs.companies)
    /\ runs' = [runs EXCEPT !.pc = "idle", !.response = run_response(runs.results)]
    /\ UNCHANGED <<pc, changeVars, rankVars, monthVars, heatVars, batchVars,
                   monthly_mentions, yoy_analysis, mom_analysis>>

NextUpsert ==
    \/ StartHeatRun
    \/ StartMentionRun
    \/ NoCompanies
    \/ HeatIndexCompany
    \/ MentionCompany
    \/ SaveRaises
    \/ RunReturns

SpecUpsert == InitUpsert /\ [][NextUpsert]_vars

\* C27: after any sequence of calculate_monthly_heat_index runs executed one
\* after another, the HeatIndex table holds at most one row per (company,
\* year_month), and its heat_index is the value of the most recent run for
\* that company and month: the timelinevol_value of the latest result entry
\* that carries one (a "failed" entry carries none).
C27_OneHeatRecordLatestValue ==
    pc = "upsert" =>
        /\ \A a, b \in DOMAIN heat_indices :
               (/\ heat_indices[a].company_id = heat_indices[b].company_id
                /\ heat_indices[a].year_month = heat_indices[b].year_month)
                   => a = b
        /\ \A key \in Companies \X UpsertMonths :
               LET existing == first_heat(heat_indices, key[1], key[2])
               IN  IF runs.obtained[key] = -1 THEN existing = 0
                   ELSE /\ existing # 0
                        /\ heat_indices[existing].heat_index = runs.obtained[key]

\* C27 witness: MaxUpsertRuns heat runs have ended and the last one has updated
\* the row of its first company to its own value
C27_Witness ==
    /\ pc = "upsert"
    /\ runs.kind = "heat" /\ runs.pc = "idle" /\ runs.count = MaxUpsertRuns
    /\ runs.results # <<>>
    /\ runs.results[1].action = "updated"
    /\ runs.results[1].value = 100 * MaxUpsertRuns
    /\ LET existing == first_heat(heat_indices, runs.results[1].company_id,
                                  runs.year_month)
       IN  existing # 0 /\ heat_indices[existing].heat_index = 100 * MaxUpsertRuns


\* the value stored for a company and month in the table the run writes:
\* heat_index or mention_count of the row the run looks up, -1 for no row
stored_value(run, company_id) ==
    IF run.kind = "heat"
    THEN LET existing == first_heat(heat_indices, company_id, run.year_month)
         IN  IF existing = 0 THEN -1 ELSE heat_indices[existing].heat_index
    ELSE LET existing == first_mention(monthly_mentions, company_id,
                                       run.year_month, AllSources)
         IN  IF existing = 0 THEN -1 ELSE monthly_mentions[existing].mention_count

\* C30: when the provider query of a company has failed (the response has
\* success = FALSE) and the company's row is saved, the row of the company
\* and month holds mention count 0 / heat index 0, whatever it held before,
\* the company's entry has success = FALSE, and the dict the run returns has
\* success = TRUE.
C30_FailedQueryStoresZero ==
    (pc = "upsert" /\ runs.results # <<>>) =>
        LET last == runs.results[Len(runs.results)]
        IN  /\ (last.action # "failed" /\ ~runs.heat_data.success) =>
                   /\ last.action \in {"created", "updated"}
                   /\ last.success = FALSE
                   /\ last.value = 0
                   /\ stored_value(runs, last.company_id) = 0
            /\ runs.pc = "idle" =>
                   /\ runs.response.success = TRUE
                   /\ runs.response.total_companies = Len(runs.results)
                   /\ runs.response.successful_companies =
                          Cardinality({k \in DOMAIN runs.results :
                                          runs.results[k].success})

\* C30 witness: a collection run has returned whose last company's query
\* failed; the row that an earlier run had stored a count in now holds 0
C30_Witness ==
    /\ pc = "upsert"
    /\ runs.kind = "gdelt_doc" /\ runs.pc = "idle" /\ runs.results # <<>>
    /\ LET last == runs.results[Len(runs.results)]
       IN  /\ last.action = "updated"
           /\ ~runs.heat_data.success
           /\ ~last.success
           /\ runs.replaced > 0
           /\ stored_value(runs, last.company_id) = 0
    /\ runs.response.success
    /\ runs.response.successful_companies < runs.response.total_companies

=============================================================================
